---- MODULE Spec2Model ----
(***************************************************************************)
(* Aurora Pro: the agent orchestration and execution substrate.            *)
(*                                                                         *)
(* The module models, as state machines over one set of variables:         *)
(*   - the input queue        (aurora_pro/mouse_keyboard_agent.py)         *)
(*   - the CLI task broker    (aurora_pro/cli_agent_backup.py)             *)
(*   - the control plane      (aurora_pro/control_center.py, main.py)      *)
(*   - the LLM router         (aurora_pro/llm_orchestrator.py)             *)
(*   - the autonomous planner (aurora_pro/autonomous_engine.py)            *)
(* Each component has its own specification (SpecInput, SpecCLI, ...);     *)
(* a component's actions leave the other components' variables unchanged.  *)
(* The program is cooperative (one asyncio event loop): an action is the   *)
(* code a coroutine runs between two suspension points.                    *)
(***************************************************************************)
EXTENDS Integers, Sequences, FiniteSets, TLC

VARIABLES
    \* ---- policy file config/operator_enabled.yaml
    policy,
    \* ---- MouseKeyboardAgent
    mk_available,      \* _pyautogui_available
    mk_running,        \* _running
    mk_tasks,          \* _tasks: sequence of InputTask records, index = task id
    mk_queue,          \* _queue: sequence of task ids
    mk_worker,         \* the _supervised_worker task: [pc, task, attempt]
    mk_audit,          \* task entries of logs/input_agent.log: {<<task id, status>>}
    mk_restart_count,  \* _restart_count
    mk_result,         \* outcome of the last submit_task call
    \* ---- CLIAgent
    now,               \* time.time()
    cli_tasks,         \* _tasks: sequence of CLITask records, index = task id
    cli_sem,           \* _agents: agent -> value of its asyncio.Semaphore(1)
    \* ---- main.py lifespan and ControlCenter
    app_serving,       \* lifespan has started every service and yielded
    sub_running,       \* the subsystems (other than the input agent) whose _running is true
    cc_flag,           \* ControlCenter._emergency_stop_triggered
    cc_epoch,          \* how many times restart_system has cleared the flag
    es_calls,          \* the invocations of emergency_stop: caller -> [pc, epoch, ...]
    rs,                \* the invocation of restart_system: [pc, next]
    cc_broadcasts,     \* per epoch: emergency_stop messages broadcast
    cc_fanouts,        \* per epoch: fan-out shutdowns (gather of the stop() calls)
    \* ---- AutonomousEngine
    ae_workflows,      \* _workflows: sequence of Workflow records, index = workflow id
    \* ---- LLMOrchestrator
    llm_stats,         \* _stats: provider -> LLMStats
    llm_calls,         \* the calls of generate: call -> [pc, provider, ...]
    llm_loaded,        \* start() has run _load_stats
    llm_selection,     \* the last _select_llm_for_task: [task_type, provider]
    plan_call,         \* the last _plan_workflow call: response and plan
    \* ---- CLIAgent's task table and history
    cli_history,       \* CLIAgent._history: the deque of task ids
    cli_task_ids,      \* the keys of CLIAgent._tasks
    cli_submitted,     \* number of submit_task calls so far
    cli_lookup,        \* the last get_task: [id, found]
    \* ---- HeartbeatMonitor
    hb_running,        \* _running
    hb_task,           \* where the _heartbeat_loop task is suspended
    hb_ticks,          \* iterations of the loop begun, modulo MaxTicks + 1
    hb_last,           \* outcome of the latest iteration
    hb_prev,           \* outcome of the iteration before it
    hb_dir_ok,         \* the log directory exists or can be created
    hb_file_ok,        \* the heartbeat log can be opened and written
    \* ---- main.py lifespan, step by step
    ls_pc,             \* startup, serving (at the yield), shutdown, done, raised
    ls_next,           \* index of the next component to start or to stop
    ls_started,        \* the components whose start() returned, in order
    ls_stopped,        \* the components whose stop() returned, in order
    \* ---- the policy gate of the components that cache the file
    gate_source,       \* component -> the policy file its _load_config read
    gate_config,       \* component -> self._config
    auth,              \* the last privileged call: [component, source, answer, raised]
    \* ---- CacheManager
    cm_running,        \* CacheManager._running
    disk_available,    \* DiskCache._available
    redis_available,   \* RedisCache._available
    mem_cache,         \* MemoryCache._cache: entries, least recently used first
    mem_bytes,         \* MemoryCache._current_size_bytes
    disk_cache,        \* the disk tier: key -> value or Absent
    redis_cache,       \* the redis tier: key -> value or Absent
    cm_last,           \* the last manager call and what it returned
    cm_ops,            \* number of manager calls so far
    cm_now,            \* time.time(), in seconds
    disk_expire,       \* the disk tier: key -> expiry time or None
    redis_expire,      \* the redis tier: key -> expiry time or None
    \* ---- ReasoningDisplay
    rd_running,        \* ReasoningDisplay._running
    rd_contexts,       \* _contexts: context id -> context, NoContext if absent
    rd_order,          \* the keys of _contexts in insertion order
    rd_active,         \* _active_context
    rd_stamp,          \* the next reading of datetime.utcnow()
    rd_stop,           \* stop(): the context ids it still has to end
    rd_subscribers,    \* _subscribers: the queues that are sent messages
    rd_queues,         \* every queue handed out by subscribe(): its content
    rd_dead,           \* dead_subscribers of the latest broadcast
    rd_sent,           \* number of broadcasts so far
    rd_console_enabled,   \* _console_enabled
    rd_console_min_level, \* _console_min_level
    rd_last,           \* the latest thought: its level, the settings, printed
    \* ---- PluginManager
    pm_plugins,        \* the keys of PluginManager._plugins
    pm_lock,           \* PluginManager._lock: the call that holds it, or None
    pm_calls,          \* the calls of load_plugin and unload_plugin
    pm_teardowns       \* plugin -> number of teardowns run

mk_rest == <<policy, mk_available, mk_tasks, mk_queue, mk_audit,
             mk_restart_count, mk_result>>

mk_vars == <<mk_rest, mk_running, mk_worker>>

cli_vars == <<now, cli_tasks, cli_sem>>

cc_vars == <<app_serving, sub_running, cc_flag, cc_epoch, es_calls, rs,
             cc_broadcasts, cc_fanouts>>

ae_vars == <<ae_workflows>>

llm_vars == <<llm_stats, llm_calls>>

sel_vars == <<llm_loaded, llm_selection>>

plan_vars == <<plan_call>>

hist_vars == <<cli_history, cli_task_ids, cli_submitted, cli_lookup>>

gate_vars == <<gate_source, gate_config, auth>>

ls_vars == <<ls_pc, ls_next, ls_started, ls_stopped>>

hb_vars == <<hb_running, hb_task, hb_ticks, hb_last, hb_prev, hb_dir_ok,
             hb_file_ok>>

cm_vars == <<cm_running, disk_available, redis_available, mem_cache, mem_bytes,
             disk_cache, redis_cache, cm_last, cm_ops, cm_now, disk_expire,
             redis_expire>>

rd_vars == <<rd_running, rd_contexts, rd_order, rd_active, rd_stamp, rd_stop,
             rd_subscribers, rd_queues, rd_dead, rd_sent, rd_console_enabled,
             rd_console_min_level, rd_last>>

pm_vars == <<pm_plugins, pm_lock, pm_calls, pm_teardowns>>

vars == <<mk_vars, cli_vars, cc_vars, ae_vars, llm_vars, sel_vars, plan_vars,
          hist_vars, hb_vars, ls_vars, gate_vars, cm_vars, rd_vars, pm_vars>>

\* what the actions of one component leave alone
OnlyMK == UNCHANGED <<cli_vars, cc_vars, ae_vars, llm_vars, sel_vars,
                      plan_vars, hist_vars, hb_vars, ls_vars, gate_vars,
                      cm_vars, rd_vars, pm_vars>>
OnlyCLI == UNCHANGED <<mk_vars, cc_vars, ae_vars, llm_vars, sel_vars,
                       plan_vars, hist_vars, hb_vars, ls_vars, gate_vars,
                       cm_vars, rd_vars, pm_vars>>
OnlyCC == UNCHANGED <<mk_rest, cli_vars, ae_vars, llm_vars, sel_vars,
                      plan_vars, hist_vars, hb_vars, ls_vars, gate_vars,
                      cm_vars, rd_vars, pm_vars>>
OnlyAE == UNCHANGED <<mk_vars, cli_vars, cc_vars, llm_vars, sel_vars,
                      plan_vars, hist_vars, hb_vars, ls_vars, gate_vars,
                      cm_vars, rd_vars, pm_vars>>
OnlyLLM == UNCHANGED <<mk_vars, cli_vars, cc_vars, ae_vars, sel_vars,
                       plan_vars, hist_vars, hb_vars, ls_vars, gate_vars,
                       cm_vars, rd_vars, pm_vars>>
OnlySEL == UNCHANGED <<mk_vars, cli_vars, cc_vars, ae_vars, llm_calls,
                       plan_vars, hist_vars, hb_vars, ls_vars, gate_vars,
                       cm_vars, rd_vars, pm_vars>>
OnlyPLAN == UNCHANGED <<mk_vars, cli_vars, cc_vars, ae_vars, llm_vars,
                        sel_vars, hist_vars, hb_vars, ls_vars, gate_vars,
                        cm_vars, rd_vars, pm_vars>>
OnlyHIST == UNCHANGED <<mk_vars, cli_vars, cc_vars, ae_vars, llm_vars,
                        sel_vars, plan_vars, hb_vars, ls_vars, gate_vars,
                        cm_vars, rd_vars, pm_vars>>
OnlyHB == UNCHANGED <<mk_vars, cli_vars, cc_vars, ae_vars, llm_vars, sel_vars,
                      plan_vars, hist_vars, ls_vars, gate_vars, cm_vars,
                      rd_vars, pm_vars>>
OnlyLS == UNCHANGED <<mk_vars, cli_vars, cc_vars, ae_vars, llm_vars, sel_vars,
                      plan_vars, hist_vars, hb_vars, gate_vars, cm_vars,
                      rd_vars, pm_vars>>
OnlyGate == UNCHANGED <<mk_available, mk_tasks, mk_queue, mk_audit,
                        mk_restart_count, mk_result, mk_running, mk_worker,
                        cli_vars, cc_vars, ae_vars, llm_vars, sel_vars,
                        plan_vars, hist_vars, hb_vars, ls_vars, cm_vars,
                        rd_vars, pm_vars>>
OnlyCM == UNCHANGED <<mk_vars, cli_vars, cc_vars, ae_vars, llm_vars, sel_vars,
                      plan_vars, hist_vars, hb_vars, ls_vars, gate_vars,
                      rd_vars, pm_vars>>
OnlyRD == UNCHANGED <<mk_vars, cli_vars, cc_vars, ae_vars, llm_vars, sel_vars,
                      plan_vars, hist_vars, hb_vars, ls_vars, gate_vars,
                      cm_vars, pm_vars>>
OnlyPM == UNCHANGED <<mk_vars, cli_vars, cc_vars, ae_vars, llm_vars, sel_vars,
                      plan_vars, hist_vars, hb_vars, ls_vars, gate_vars,
                      cm_vars, rd_vars>>

(***************************************************************************)
(* Bounds of the model.                                                    *)
(***************************************************************************)
MaxInputTasks == 2
MaxCrashes == 1
MaxCliTasks == 2
MaxClock == 2
CliTimeout == 1
MaxCallers == 2
MaxRestarts == 1
MaxWorkflows == 2
MaxActions == 2
MaxLlmCalls == 2
MaxMemoryBytes == 2
MaxRequests == 11
MaxSubmitted == 22
MaxCacheOps == 3
MaxTicks == 3
MaxAverage == 1
MaxPluginCalls == 3
MaxCacheClock == 1
MaxTTL == 1
MaxContexts == 2
MaxStamps == 4
MaxBroadcasts == 4
MaxSubscribers == 2
\* the capacity of a subscriber's queue (maxsize=100 in subscribe())
QueueMaxsize == 2

(***************************************************************************)
(* Policy file.  file = "ok": the YAML parsed to a mapping; "missing": no  *)
(* file; "unparsable": yaml.safe_load raised.  features is the set of      *)
(* capability names the file maps to true.                                 *)
(***************************************************************************)
PolicyAllow == [file |-> "ok", operator_enabled |-> TRUE,
                features |-> {"control_mouse_keyboard"}]
PolicyMasterOff == [file |-> "ok", operator_enabled |-> FALSE,
                    features |-> {"control_mouse_keyboard"}]
PolicyFeatureOff == [file |-> "ok", operator_enabled |-> TRUE, features |-> {}]
PolicyMissing == [file |-> "missing", operator_enabled |-> FALSE, features |-> {}]
PolicyFiles == {PolicyAllow, PolicyMasterOff, PolicyFeatureOff, PolicyMissing}

\* MouseKeyboardAgent._check_authorization
MK_check_authorization(p) ==
    /\ p.file = "ok"
    /\ p.operator_enabled
    /\ "control_mouse_keyboard" \in p.features

\* the operator (or anything else) rewrites the policy file
PolicyChange ==
    /\ OnlyMK
    /\ \E p \in PolicyFiles : p # policy /\ policy' = p
    /\ UNCHANGED <<mk_available, mk_running, mk_tasks, mk_queue, mk_worker,
                   mk_audit, mk_restart_count, mk_result>>

(***************************************************************************)
(* MouseKeyboardAgent                                                      *)
(***************************************************************************)
MAX_RETRIES == 2
RETRY_DELAY == 1

NoWorker == [pc |-> "none", task |-> 0, attempt |-> 0]
DeadWorker == [pc |-> "dead", task |-> 0, attempt |-> 0]
IdleWorker == [pc |-> "get", task |-> 0, attempt |-> 0]

\* InputTask.__init__
NewInputTask == [status |-> "queued", started |-> FALSE, finished |-> FALSE,
                 retry_count |-> 0, executions |-> 0, failsafe |-> FALSE,
                 delays |-> <<>>]

\* the pause before the next attempt: RETRY_DELAY * (attempt + 1) seconds
MK_retry_delay_constant(attempt) == RETRY_DELAY

MK_retry_delay(attempt) == RETRY_DELAY * (attempt + 1)

\* what _execute_input_action raises when the pyautogui call fails: its
\* handler wraps every exception, the failsafe too, in a RuntimeError that
\* differs in the message only
MK_execute_input_action_raises(failsafe) ==
    [class |-> "RuntimeError",
     message |-> IF failsafe THEN "PyAutoGUI failsafe triggered"
                 ELSE "Input action failed"]

\* the exceptions _worker's retry loop handles: "except Exception"
MK_worker_retries(exc) == exc.class \in {"RuntimeError", "Exception"}

MK_Init ==
    /\ mk_running = FALSE
    /\ mk_tasks = <<>>
    /\ mk_queue = <<>>
    /\ mk_worker = NoWorker
    /\ mk_audit = {}
    /\ mk_restart_count = 0
    /\ mk_result = "none"

\* start(): returns early when already running or when pyautogui is missing;
\* otherwise sets the flag and creates the supervised worker task.
MK_start ==
    /\ OnlyMK
    /\ ~mk_running
    /\ mk_available
    /\ mk_running' = TRUE
    /\ mk_worker' = IdleWorker
    /\ UNCHANGED <<policy, mk_available, mk_tasks, mk_queue, mk_audit,
                   mk_restart_count, mk_result>>

\* stop(): clears the flag and cancels the worker task at whatever
\* suspension point it is waiting; the task it was processing is not touched.
MK_stop ==
    /\ OnlyMK
    /\ mk_running \/ mk_worker.pc \notin {"none", "dead"}
    /\ mk_running' = FALSE
    /\ mk_worker' = IF mk_worker.pc = "none" THEN NoWorker ELSE DeadWorker
    /\ UNCHANGED <<policy, mk_available, mk_tasks, mk_queue, mk_audit,
                   mk_restart_count, mk_result>>

\* submit_task() when pyautogui is unavailable: RuntimeError
MK_submit_task_unavailable ==
    /\ OnlyMK
    /\ ~mk_available
    /\ mk_result' = "unavailable"
    /\ UNCHANGED <<policy, mk_available, mk_running, mk_tasks, mk_queue,
                   mk_worker, mk_audit, mk_restart_count>>

\* submit_task() when _check_authorization() is false: PermissionError
MK_submit_task_denied ==
    /\ OnlyMK
    /\ mk_available
    /\ ~MK_check_authorization(policy)
    /\ mk_result' = "denied"
    /\ UNCHANGED <<policy, mk_available, mk_running, mk_tasks, mk_queue,
                   mk_worker, mk_audit, mk_restart_count>>

\* submit_task() when authorized: the task is recorded and queued, then the
\* "queued" audit entry is written (audit_ok) or the audit call raises
\* (the log directory cannot be created), after the task was queued.
MK_submit_task ==
    /\ OnlyMK
    /\ mk_available
    /\ MK_check_authorization(policy)
    /\ Len(mk_tasks) < MaxInputTasks
    /\ LET id == Len(mk_tasks) + 1 IN
        /\ mk_tasks' = Append(mk_tasks, NewInputTask)
        /\ mk_queue' = Append(mk_queue, id)
        /\ \E audit_ok \in BOOLEAN :
            /\ mk_audit' = IF audit_ok THEN mk_audit \cup {<<id, "queued">>}
                           ELSE mk_audit
            /\ mk_result' = IF audit_ok THEN "queued" ELSE "audit_raised"
    /\ UNCHANGED <<policy, mk_available, mk_running, mk_worker, mk_restart_count>>

\* _supervised_worker's handler for an exception escaping _worker: count the
\* crash, audit it (which may raise again and end the worker task), and, when
\* still running, sleep before re-entering _worker.
MK_crashed(handler_ok) ==
    /\ mk_restart_count < MaxCrashes
    /\ mk_restart_count' = mk_restart_count + 1
    /\ mk_worker' = IF handler_ok /\ mk_running
                    THEN [pc |-> "crash_sleep", task |-> 0, attempt |-> 0]
                    ELSE DeadWorker

\* _worker: a task is taken from the queue, marked running, and the
\* "running" audit entry is written (or the audit call raises: crash).
MK_worker_dequeue ==
    /\ OnlyMK
    /\ mk_worker.pc = "get"
    /\ mk_running
    /\ mk_queue # <<>>
    /\ LET t == Head(mk_queue) IN
        /\ mk_queue' = Tail(mk_queue)
        /\ mk_tasks' = [mk_tasks EXCEPT ![t].status = "running", ![t].started = TRUE]
        /\ \/ /\ mk_audit' = mk_audit \cup {<<t, "running">>}
              /\ mk_worker' = [pc |-> "audit_running", task |-> t, attempt |-> 0]
              /\ UNCHANGED mk_restart_count
           \/ /\ \E handler_ok \in BOOLEAN : MK_crashed(handler_ok)
              /\ UNCHANGED mk_audit
    /\ UNCHANGED <<policy, mk_available, mk_running, mk_result>>

\* _worker: the action is handed to the executor thread
\* (run_in_executor(_execute_input_action)): the hardware action happens.
MK_worker_execute ==
    /\ OnlyMK
    /\ mk_worker.pc \in {"audit_running", "backoff"}
    /\ LET t == mk_worker.task IN
        mk_tasks' = [mk_tasks EXCEPT ![t].executions = @ + 1]
    /\ mk_worker' = [mk_worker EXCEPT !.pc = "exec"]
    /\ UNCHANGED <<policy, mk_available, mk_running, mk_queue, mk_audit,
                   mk_restart_count, mk_result>>

\* _worker: the executor returned a result: status completed, audit "completed"
MK_worker_success ==
    /\ OnlyMK
    /\ mk_worker.pc = "exec"
    /\ LET t == mk_worker.task IN
        /\ mk_tasks' = [mk_tasks EXCEPT ![t].status = "completed"]
        /\ \/ /\ mk_audit' = mk_audit \cup {<<t, "completed">>}
              /\ mk_worker' = [mk_worker EXCEPT !.pc = "audit_final"]
              /\ UNCHANGED mk_restart_count
           \/ /\ \E handler_ok \in BOOLEAN : MK_crashed(handler_ok)
              /\ UNCHANGED mk_audit
    /\ UNCHANGED <<policy, mk_available, mk_running, mk_queue, mk_result>>

\* _worker: the executor raised (the failsafe or another failure): retry
\* with backoff while attempt < max_retries, else status error, audit "failed"
MK_worker_failure ==
    /\ OnlyMK
    /\ mk_worker.pc = "exec"
    /\ \E failsafe \in BOOLEAN :
       LET t == mk_worker.task
           attempt == mk_worker.attempt
           exc == MK_execute_input_action_raises(failsafe) IN
        IF MK_worker_retries(exc) /\ attempt < MAX_RETRIES
        THEN \/ /\ mk_tasks' = [mk_tasks EXCEPT
                                    ![t].retry_count = attempt,
                                    ![t].failsafe = @ \/ failsafe,
                                    ![t].delays = Append(@, MK_retry_delay(attempt))]
                /\ mk_audit' = mk_audit \cup {<<t, "retrying">>}
                /\ mk_worker' = [pc |-> "backoff", task |-> t, attempt |-> attempt + 1]
                /\ UNCHANGED mk_restart_count
             \/ /\ mk_tasks' = [mk_tasks EXCEPT ![t].retry_count = attempt,
                                                ![t].failsafe = @ \/ failsafe]
                /\ \E handler_ok \in BOOLEAN : MK_crashed(handler_ok)
                /\ UNCHANGED mk_audit
        ELSE /\ mk_tasks' = [mk_tasks EXCEPT ![t].retry_count = attempt,
                                             ![t].failsafe = @ \/ failsafe,
                                             ![t].status = "error"]
             /\ \/ /\ mk_audit' = mk_audit \cup {<<t, "failed">>}
                   /\ mk_worker' = [mk_worker EXCEPT !.pc = "audit_final"]
                   /\ UNCHANGED mk_restart_count
                \/ /\ \E handler_ok \in BOOLEAN : MK_crashed(handler_ok)
                   /\ UNCHANGED mk_audit
    /\ UNCHANGED <<policy, mk_available, mk_running, mk_queue, mk_result>>

\* _worker: after the final audit entry: finished_at is set, task_done(), and
\* the loop tests _running again.
MK_worker_finish ==
    /\ OnlyMK
    /\ mk_worker.pc = "audit_final"
    /\ LET t == mk_worker.task IN
        mk_tasks' = [mk_tasks EXCEPT ![t].finished = TRUE]
    /\ mk_worker' = IF mk_running THEN IdleWorker ELSE DeadWorker
    /\ UNCHANGED <<policy, mk_available, mk_running, mk_queue, mk_audit,
                   mk_restart_count, mk_result>>

\* _supervised_worker: the pause after a crash is over; _worker is re-entered
MK_worker_reenter ==
    /\ OnlyMK
    /\ mk_worker.pc = "crash_sleep"
    /\ mk_worker' = IF mk_running THEN IdleWorker ELSE DeadWorker
    /\ UNCHANGED <<policy, mk_available, mk_running, mk_tasks, mk_queue,
                   mk_audit, mk_restart_count, mk_result>>

NextInput ==
    \/ PolicyChange
    \/ MK_start
    \/ MK_stop
    \/ MK_submit_task_unavailable
    \/ MK_submit_task_denied
    \/ MK_submit_task
    \/ MK_worker_dequeue
    \/ MK_worker_execute
    \/ MK_worker_success
    \/ MK_worker_failure
    \/ MK_worker_finish
    \/ MK_worker_reenter

\* the worker loop alone: submissions that are accepted, start, stop and the
\* worker's steps, under a policy that permits input control
NextRetry ==
    \/ MK_start
    \/ MK_stop
    \/ MK_submit_task
    \/ MK_worker_dequeue
    \/ MK_worker_execute
    \/ MK_worker_success
    \/ MK_worker_failure
    \/ MK_worker_finish
    \/ MK_worker_reenter

\* the event loop resumes a coroutine whose await is over: the worker takes
\* its next step, and an executor call comes to an end.  The agent is also
\* started again whenever it is stopped, the case most favourable to a task
\* that waits.
QueueFairness ==
    /\ WF_vars(MK_start)
    /\ WF_vars(MK_worker_dequeue)
    /\ WF_vars(MK_worker_execute)
    /\ WF_vars(MK_worker_success \/ MK_worker_failure)
    /\ WF_vars(MK_worker_finish)
    /\ WF_vars(MK_worker_reenter)

(***************************************************************************)
(* Claims about the input queue                                            *)
(***************************************************************************)
RunningInputTasks == {t \in DOMAIN mk_tasks : mk_tasks[t].status = "running"}

\* C1: whenever the policy denies control_mouse_keyboard, no step executes an
\* input action on the mouse/keyboard and no step writes a "running" or
\* "completed" audit entry, also when the policy became denying after the
\* task was queued.
C1_DeniedNoSideEffect ==
    [][ ~MK_check_authorization(policy) =>
          /\ \A t \in DOMAIN mk_tasks :
                mk_tasks'[t].executions = mk_tasks[t].executions
          /\ \A e \in mk_audit' \ mk_audit : e[2] \notin {"running", "completed"}
      ]_vars

\* C3: at every instant at most one input task has status running.
C3_OneInputRunning == Cardinality(RunningInputTasks) <= 1

\* a call of submit_task, whatever its outcome
MK_submit_call ==
    \/ MK_submit_task_unavailable
    \/ MK_submit_task_denied
    \/ MK_submit_task

\* C27: an input action that triggered the failsafe is not retried: the
\* action of its task is attempted exactly once.
C27_FailsafeNotRetried ==
    \A t \in DOMAIN mk_tasks :
        mk_tasks[t].failsafe => mk_tasks[t].executions = 1

\* C31 as stated: a task is attempted at most max_retries + 1 times, a task
\* that ended in error was attempted max_retries + 1 times with the pauses
\* 1s, 2s and 3s between its attempts, and a completed task is not
\* attempted again.
C31_BackoffOneTwoThree ==
    [][ \A t \in DOMAIN mk_tasks' :
          /\ mk_tasks'[t].executions <= MAX_RETRIES + 1
          /\ mk_tasks'[t].status = "error" =>
                /\ mk_tasks'[t].executions = MAX_RETRIES + 1
                /\ mk_tasks'[t].delays = <<1, 2, 3>>
          /\ (t \in DOMAIN mk_tasks /\ mk_tasks[t].status = "completed") =>
                mk_tasks'[t].executions = mk_tasks[t].executions
      ]_vars

\* C31, amended: a task is attempted at most max_retries + 1 times, the
\* pause after its k-th failed attempt is k seconds (1s and 2s with the two
\* retries there are; no third pause is made), a task that ended in error
\* was attempted max_retries + 1 times, and a completed task is not
\* attempted again and stays completed.
C31_RetrySchedule ==
    [][ \A t \in DOMAIN mk_tasks' :
          /\ mk_tasks'[t].executions <= MAX_RETRIES + 1
          /\ Len(mk_tasks'[t].delays) <= MAX_RETRIES
          /\ Len(mk_tasks'[t].delays) <= mk_tasks'[t].executions
          /\ \A k \in DOMAIN mk_tasks'[t].delays : mk_tasks'[t].delays[k] = k
          /\ mk_tasks'[t].status = "error" =>
                /\ mk_tasks'[t].executions = MAX_RETRIES + 1
                /\ mk_tasks'[t].delays = <<1, 2>>
          /\ (t \in DOMAIN mk_tasks /\ mk_tasks[t].status = "completed") =>
                /\ mk_tasks'[t].executions = mk_tasks[t].executions
                /\ mk_tasks'[t].status = "completed"
      ]_vars

\* C31 witness: one task failed three times and ended in error after the
\* pauses 1s and 2s, another completed on its second attempt
C31_Witness ==
    \E t1, t2 \in DOMAIN mk_tasks :
        /\ mk_tasks[t1].status = "error"
        /\ mk_tasks[t1].executions = MAX_RETRIES + 1
        /\ mk_tasks[t1].delays = <<1, 2>>
        /\ mk_tasks[t2].status = "completed"
        /\ mk_tasks[t2].executions = 2
        /\ mk_tasks[t2].finished

\* C37: every task submit_task has recorded comes to a terminal status
\* (completed or error) with finished_at set: none stays queued or running
\* for ever, a task that is running or queued when stop() is called and a
\* task submitted while the worker is not running included.
C37_EveryTaskFinishes ==
    \A t \in 1..MaxInputTasks :
        (t \in DOMAIN mk_tasks)
        ~> (/\ t \in DOMAIN mk_tasks
            /\ mk_tasks[t].status \in {"completed", "error"}
            /\ mk_tasks[t].finished)

\* C11: a submit_task call made while the policy denies control_mouse_keyboard
\* is rejected with the authorization error (PermissionError, 403) and leaves
\* the task table, the queue and the audit log as they were.
C11_DeniedSubmitFrame ==
    [][ (~MK_check_authorization(policy) /\ MK_submit_call)
            => /\ mk_result' = "denied"
               /\ UNCHANGED <<mk_tasks, mk_queue, mk_audit>>
      ]_vars

(***************************************************************************)
(* CLIAgent                                                                *)
(***************************************************************************)
AgentType == {"claude", "codex"}
CliTerminal == {"completed", "error", "timeout"}
None == -1

CLI_Init ==
    /\ now = 0
    /\ cli_tasks = <<>>
    /\ cli_sem = [g \in AgentType |-> 1]

\* the wall clock advances.  time.time() is read only by submit_task and by
\* the _execute_task coroutines, so the clock is followed while some
\* coroutine is alive; time that passes while the broker is idle is not
\* counted.
Tick ==
    /\ OnlyCLI
    /\ now < MaxClock
    /\ \E t \in DOMAIN cli_tasks :
          cli_tasks[t].pc \in {"wait_sem", "spawn", "run", "finalize"}
    /\ now' = now + 1
    /\ UNCHANGED <<cli_tasks, cli_sem>>

\* CLITask(...) as submit_task constructs it
NewCliTask(agent, timeout, spawned) ==
    [agent |-> agent, status |-> "queued", timeout |-> timeout,
     created_at |-> now, started_at |-> None, wait_from |-> None,
     finished_at |-> None,
     pc |-> IF spawned THEN "wait_sem" ELSE "unspawned"]

\* submit_task(): record the task, write the "queued" audit entry, then
\* create the _execute_task coroutine.  _audit_log has no handler: when the
\* write fails submit_task raises and the coroutine is never created.
CLI_submit_task ==
    /\ OnlyCLI
    /\ Len(cli_tasks) < MaxCliTasks
    /\ \E agent \in AgentType, audit_ok \in BOOLEAN :
        cli_tasks' = Append(cli_tasks, NewCliTask(agent, CliTimeout, audit_ok))
    /\ UNCHANGED <<now, cli_sem>>

\* the status _execute_task gives a task when it has acquired the semaphore
CLI_started_status == "running"

\* _execute_task, from "async with sem" to the "running" audit write: the
\* semaphore is acquired, status running, started_at set.  When the audit
\* write raises, the exception leaves the "async with" (releasing the
\* semaphore) before the try block: the status stays running.
CLI_execute_task_begin(t) ==
    /\ OnlyCLI
    /\ cli_tasks[t].pc = "wait_sem"
    /\ cli_sem[cli_tasks[t].agent] > 0
    /\ \E audit_ok \in BOOLEAN :
        /\ cli_tasks' = [cli_tasks EXCEPT
                            ![t].status = CLI_started_status,
                            ![t].started_at = now,
                            ![t].pc = IF audit_ok THEN "spawn" ELSE "aborted"]
        /\ cli_sem' = IF audit_ok
                      THEN [cli_sem EXCEPT ![cli_tasks[t].agent] = @ - 1]
                      ELSE cli_sem
    /\ UNCHANGED now

\* the time _execute_task's finally block records
CLI_finished_at_created(task) == task.created_at

CLI_finished_at(task) == now

\* _run_subprocess, from create_subprocess_exec to the wait_for call: the
\* process is spawned, the prompt is written to its stdin and drained (no
\* timeout covers these awaits), the reader tasks are created and wait_for
\* starts its own timer.  A binary that is not found raises RuntimeError,
\* which _execute_task turns into status error.
CLI_run_subprocess_spawn(t) ==
    /\ OnlyCLI
    /\ cli_tasks[t].pc = "spawn"
    /\ \E found \in BOOLEAN :
        cli_tasks' = [cli_tasks EXCEPT
                         ![t].wait_from = IF found THEN now ELSE @,
                         ![t].status = IF found THEN @ ELSE "error",
                         ![t].finished_at = IF found THEN @
                                            ELSE CLI_finished_at(cli_tasks[t]),
                         ![t].pc = IF found THEN "run" ELSE "finalize"]
    /\ UNCHANGED <<now, cli_sem>>

\* the outcomes of wait_for(proc.wait(), timeout) at the current time: the
\* process exits (0: completed, else error) within the timeout, or wait_for
\* times out once task.timeout has passed since wait_for was called; the
\* process is then killed and TimeoutError becomes status timeout.
CLI_outcomes(task) ==
    (IF now - task.wait_from <= task.timeout THEN {"completed", "error"} ELSE {})
    \cup (IF now - task.wait_from >= task.timeout THEN {"timeout"} ELSE {})

\* _execute_task: _run_subprocess ends (or raises) and wait_for's timer is
\* gone with it, the finally block sets finished_at; the terminal audit
\* entry and the task report are written while the semaphore is still held
\* (a failing write changes no task field).
CLI_execute_task_end(t) ==
    /\ OnlyCLI
    /\ cli_tasks[t].pc = "run"
    /\ \E outcome \in CLI_outcomes(cli_tasks[t]) :
        cli_tasks' = [cli_tasks EXCEPT
                         ![t].status = outcome,
                         ![t].wait_from = None,
                         ![t].finished_at = CLI_finished_at(cli_tasks[t]),
                         ![t].pc = "finalize"]
    /\ UNCHANGED <<now, cli_sem>>

\* _execute_task: the coroutine leaves "async with sem"
CLI_execute_task_release(t) ==
    /\ OnlyCLI
    /\ cli_tasks[t].pc = "finalize"
    /\ cli_tasks' = [cli_tasks EXCEPT ![t].pc = "done"]
    /\ cli_sem' = [cli_sem EXCEPT ![cli_tasks[t].agent] = @ + 1]
    /\ UNCHANGED now

NextCLI ==
    \/ Tick
    \/ CLI_submit_task
    \/ \E t \in DOMAIN cli_tasks : CLI_execute_task_begin(t)
    \/ \E t \in DOMAIN cli_tasks : CLI_run_subprocess_spawn(t)
    \/ \E t \in DOMAIN cli_tasks : CLI_execute_task_end(t)
    \/ \E t \in DOMAIN cli_tasks : CLI_execute_task_release(t)

(***************************************************************************)
(* Claims about the CLI broker                                             *)
(***************************************************************************)
RunningCliTasks(g) ==
    {t \in DOMAIN cli_tasks : cli_tasks[t].agent = g /\ cli_tasks[t].status = "running"}

\* C2: for every agent, at most one of its CLI tasks has status running.
C2_OneCliRunningPerAgent ==
    \A g \in AgentType : Cardinality(RunningCliTasks(g)) <= 1

\* C7: a CLI task is created queued; its status only ever moves queued ->
\* running -> {completed, error, timeout} and never changes once terminal;
\* and finished_at >= started_at >= created_at whenever they are set.
C7_CliLifecycle ==
    [][ /\ \A t \in DOMAIN cli_tasks' \ DOMAIN cli_tasks :
              cli_tasks'[t].status = "queued"
        /\ \A t \in DOMAIN cli_tasks :
              \/ cli_tasks'[t].status = cli_tasks[t].status
              \/ cli_tasks[t].status = "queued" /\ cli_tasks'[t].status = "running"
              \/ cli_tasks[t].status = "running" /\ cli_tasks'[t].status \in CliTerminal
        /\ \A t \in DOMAIN cli_tasks' :
              /\ cli_tasks'[t].started_at # None =>
                    cli_tasks'[t].started_at >= cli_tasks'[t].created_at
              /\ cli_tasks'[t].finished_at # None =>
                    /\ cli_tasks'[t].started_at # None
                    /\ cli_tasks'[t].finished_at >= cli_tasks'[t].started_at
              /\ cli_tasks'[t].status \in CliTerminal =>
                    cli_tasks'[t].finished_at # None
      ]_vars

\* C7 witness: a task that was created, started and finished at three
\* different times and ended in timeout
C7_Witness ==
    \E t \in DOMAIN cli_tasks :
        /\ cli_tasks[t].status = "timeout"
        /\ cli_tasks[t].created_at < cli_tasks[t].started_at
        /\ cli_tasks[t].started_at < cli_tasks[t].finished_at

\* C25: a running CLI task whose deadline (started_at + timeout) has passed
\* when its external process is seen to finish ends with status timeout:
\* the process was killed at the deadline, it cannot complete after it.
C25_DeadlineKills ==
    [][ \A t \in DOMAIN cli_tasks :
          (/\ cli_tasks[t].pc = "run"
           /\ cli_tasks'[t].status \in CliTerminal
           /\ now - cli_tasks[t].started_at > cli_tasks[t].timeout)
          => cli_tasks'[t].status = "timeout"
      ]_vars

\* C14: a failing audit write never raises into the broker: every submitted
\* task has its _execute_task coroutine created, and every task that started
\* leaves the semaphore block only with a terminal status.
C14_AuditFailureContained ==
    \A t \in DOMAIN cli_tasks :
        /\ cli_tasks[t].pc # "unspawned"
        /\ cli_tasks[t].pc = "aborted" => cli_tasks[t].status \in CliTerminal

(***************************************************************************)
(* CLIAgent: the task table and the history of task ids                    *)
(***************************************************************************)
\* CLIAgent.HISTORY_MAX
HISTORY_MAX == 20

\* deque(maxlen=HISTORY_MAX).append: the oldest id is dropped when full
DequeAppend(history, id) ==
    IF Len(history) < HISTORY_MAX
    THEN Append(history, id)
    ELSE Append(Tail(history), id)

NoLookup == [id |-> 0, found |-> FALSE]

HIST_Init ==
    /\ cli_history = <<>>
    /\ cli_task_ids = {}
    /\ cli_submitted = 0
    /\ cli_lookup = NoLookup

\* submit_task, under the lock: self._tasks[task_id] = task and
\* self._history.append(task_id); task ids are numbered in submission order
HIST_submit_task ==
    /\ OnlyHIST
    /\ cli_submitted < MaxSubmitted
    /\ cli_submitted' = cli_submitted + 1
    /\ cli_task_ids' = cli_task_ids \cup {cli_submitted + 1}
    /\ cli_history' = DequeAppend(cli_history, cli_submitted + 1)
    /\ UNCHANGED cli_lookup

\* get_task(task_id): self._tasks.get(task_id)
HIST_get_task ==
    /\ OnlyHIST
    /\ \E id \in 1..MaxSubmitted :
        cli_lookup' = [id |-> id, found |-> id \in cli_task_ids]
    /\ UNCHANGED <<cli_history, cli_task_ids, cli_submitted>>

NextHistory ==
    \/ HIST_submit_task
    \/ HIST_get_task

\* C24: the answer of the last status query: an id that was submitted but is
\* no longer among the HISTORY_MAX most recent ones was not found.
C24_OldTaskUnknown ==
    (/\ cli_lookup.id # 0
     /\ cli_lookup.id <= cli_submitted - HISTORY_MAX) => ~cli_lookup.found

(***************************************************************************)
(* HeartbeatMonitor                                                        *)
(***************************************************************************)
HeartbeatOutcomes == {"none", "written", "write_failed", "raised"}

HB_Init ==
    /\ hb_running = FALSE
    /\ hb_task = "none"
    /\ hb_ticks = 0
    /\ hb_last = "none"
    /\ hb_prev = "none"
    /\ hb_dir_ok = TRUE
    /\ hb_file_ok = TRUE

\* start(): returns early when already running; otherwise sets the flag and
\* creates the _heartbeat_loop task, which goes to sleep for the interval
HB_start ==
    /\ OnlyHB
    /\ ~hb_running
    /\ hb_running' = TRUE
    /\ hb_task' = "sleep"
    /\ UNCHANGED <<hb_ticks, hb_last, hb_prev, hb_dir_ok, hb_file_ok>>

\* stop(): clears the flag, cancels the task at the await it is suspended in
\* (CancelledError is re-raised by the loop) and awaits its end
HB_stop ==
    /\ OnlyHB
    /\ hb_running
    /\ hb_running' = FALSE
    /\ hb_task' = IF hb_task \in {"sleep", "backoff"} THEN "cancelled" ELSE hb_task
    /\ UNCHANGED <<hb_ticks, hb_last, hb_prev, hb_dir_ok, hb_file_ok>>

\* the log directory becomes (un)creatable, the log file (un)writable
HB_environment ==
    /\ OnlyHB
    /\ \E dir_ok, file_ok \in BOOLEAN :
        /\ <<dir_ok, file_ok>> # <<hb_dir_ok, hb_file_ok>>
        /\ hb_dir_ok' = dir_ok
        /\ hb_file_ok' = file_ok
    /\ UNCHANGED <<hb_running, hb_task, hb_ticks, hb_last, hb_prev>>

\* _write_heartbeat: mkdir of the log directory is outside the try block and
\* raises; a failing open or write is caught and logged
HB_write_heartbeat ==
    IF ~hb_dir_ok THEN "raised"
    ELSE IF hb_file_ok THEN "written" ELSE "write_failed"

\* where an exception caught by the loop's "except Exception" leaves the task
HB_after_exception_dies == "dead"

HB_after_exception == "backoff"

\* _heartbeat_loop, one iteration after the interval sleep: the health status
\* is gathered and the heartbeat entry written; an exception is logged and
\* the task sleeps for the brief pause
HB_iteration ==
    /\ OnlyHB
    /\ hb_task = "sleep"
    /\ hb_ticks' = (hb_ticks + 1) % (MaxTicks + 1)
    /\ hb_prev' = hb_last
    /\ hb_last' = HB_write_heartbeat
    /\ hb_task' = IF HB_write_heartbeat = "raised" THEN HB_after_exception
                  ELSE "sleep"
    /\ UNCHANGED <<hb_running, hb_dir_ok, hb_file_ok>>

\* _heartbeat_loop: the pause after an error is over; "while self._running"
\* is tested (true: stop() would have cancelled the pause) and the interval
\* sleep begins again
HB_backoff_over ==
    /\ OnlyHB
    /\ hb_task = "backoff"
    /\ hb_task' = IF hb_running THEN "sleep" ELSE "none"
    /\ UNCHANGED <<hb_running, hb_ticks, hb_last, hb_prev, hb_dir_ok, hb_file_ok>>

NextHeartbeat ==
    \/ HB_start
    \/ HB_stop
    \/ HB_environment
    \/ HB_iteration
    \/ HB_backoff_over

\* the event loop runs every timer that is due: an interval sleep and a
\* pause that are over let the loop task continue
HeartbeatFairness ==
    /\ WF_vars(HB_iteration)
    /\ WF_vars(HB_backoff_over)

\* C28: an iteration of the heartbeat loop that raises leaves the monitor
\* running and the loop task in its brief pause; from the pause the loop
\* goes on to a further iteration, unless stop() is called.
C28_LoopSurvivesError ==
    /\ [][ (hb_task = "sleep" /\ hb_last' = "raised" /\ hb_ticks' # hb_ticks)
           => (hb_running' /\ hb_task' = "backoff") ]_vars
    /\ \A k \in 0..MaxTicks :
          (hb_last = "raised" /\ hb_ticks = k /\ hb_running)
          ~> (hb_ticks # k \/ ~hb_running)

\* C28 witness: an iteration raised, and the next one wrote its heartbeat
C28_Witness ==
    /\ hb_running
    /\ hb_prev = "raised"
    /\ hb_last = "written"

(***************************************************************************)
(* main.py lifespan and ControlCenter                                      *)
(***************************************************************************)
\* the services whose start() lifespan awaits and which keep a _running flag
Subsystems == {"input", "heartbeat", "vision", "stealth_browser", "captcha",
               "plugin", "multicore", "cache", "proxy", "local_inference",
               "llm", "autonomous", "reasoning", "control_center"}

\* the agents emergency_stop builds stop_tasks from
EmergencyStopTargets == {"autonomous", "multicore", "stealth_browser",
                         "vision", "cache", "llm"}

\* a restart that does not start the cache manager again
RestartOrder_without_cache == <<"llm", "autonomous", "multicore", "vision",
                                "stealth_browser">>

\* the order in which restart_system starts the agents again
RestartOrder == <<"llm", "autonomous", "multicore", "cache", "vision",
                  "stealth_browser">>

\* the agents AutonomousEngine.start() starts when they are not running
AutonomousStarts == {"autonomous", "llm", "vision", "stealth_browser", "captcha"}

RunningSubsystems == sub_running \cup (IF mk_running THEN {"input"} ELSE {})

\* emergency_stop is invoked by MaxCallers requests to
\* POST /control/emergency-stop and, as caller 0, by restart_system
Callers == 1..MaxCallers
AllCallers == 0..MaxCallers
Epochs == 0..MaxRestarts

NoCall == [pc |-> "idle", epoch |-> 0, passed |-> FALSE, concurrent |-> FALSE,
           stops |-> {}, fanout_epoch |-> 0]
NoRestart == [pc |-> "idle", next |-> 1]

CC_Init ==
    /\ app_serving = FALSE
    /\ sub_running = {}
    /\ cc_flag = FALSE
    /\ cc_epoch = 0
    /\ es_calls = [c \in AllCallers |-> NoCall]
    /\ rs = NoRestart
    /\ cc_broadcasts = [e \in Epochs |-> 0]
    /\ cc_fanouts = [e \in Epochs |-> 0]

\* MouseKeyboardAgent.start() as lifespan and AutonomousEngine.start() call it
InputStarted ==
    /\ mk_running' = (mk_running \/ mk_available)
    /\ mk_worker' = IF ~mk_running /\ mk_available THEN IdleWorker ELSE mk_worker

\* lifespan, up to its yield: every service is started (the input agent only
\* when pyautogui is available); ControlCenter.start() clears the flag.
Lifespan_startup ==
    /\ OnlyCC
    /\ ~app_serving
    /\ app_serving' = TRUE
    /\ InputStarted
    /\ sub_running' = Subsystems \ {"input"}
    /\ cc_flag' = FALSE
    /\ UNCHANGED <<cc_epoch, es_calls, rs, cc_broadcasts, cc_fanouts>>

\* the invocations of emergency_stop that passed the guard and have not returned
InFlight(e) ==
    {c \in AllCallers : es_calls[c].pc \in {"audit", "gather"} /\ es_calls[c].epoch = e}

\* emergency_stop's guard, read under _lock: "Already stopping"
ES_already_stopping_never == FALSE

ES_already_stopping == cc_flag

\* emergency_stop, from the call to its first suspension: under _lock (free
\* at every suspension point, no await is made while it is held) the flag is
\* tested and set; the caller returns at once when it was set.
ES_invoke(c) ==
    /\ es_calls' = [es_calls EXCEPT ![c] =
            [pc |-> IF ES_already_stopping THEN "returned" ELSE "audit",
             epoch |-> cc_epoch,
             passed |-> ~ES_already_stopping,
             concurrent |-> InFlight(cc_epoch) # {},
             stops |-> {},
             fanout_epoch |-> cc_epoch]]
    /\ cc_flag' = TRUE

\* POST /control/emergency-stop
ES_emergency_stop(c) ==
    /\ OnlyCC
    /\ app_serving
    /\ es_calls[c].pc = "idle"
    /\ ES_invoke(c)
    /\ UNCHANGED <<mk_running, mk_worker, app_serving, sub_running, cc_epoch,
                   rs, cc_broadcasts, cc_fanouts>>

\* emergency_stop after the audit write: the emergency_stop message is
\* broadcast (_ws_clients is empty: nothing in the program registers a
\* client) and stop_tasks is built from the agents whose _running is true.
ES_broadcast(c) ==
    /\ OnlyCC
    /\ es_calls[c].pc = "audit"
    /\ cc_broadcasts' = [cc_broadcasts EXCEPT ![es_calls[c].epoch] = @ + 1]
    /\ es_calls' = [es_calls EXCEPT ![c].pc = "gather",
                                    ![c].stops = EmergencyStopTargets \cap sub_running]
    /\ UNCHANGED <<mk_running, mk_worker, app_serving, sub_running, cc_flag,
                   cc_epoch, rs, cc_fanouts>>

\* emergency_stop: gather(*stop_tasks, return_exceptions=True) has run the
\* stop() of every agent in stop_tasks; the invocation returns.
ES_fanout(c) ==
    /\ OnlyCC
    /\ es_calls[c].pc = "gather"
    /\ sub_running' = sub_running \ es_calls[c].stops
    /\ cc_fanouts' = [cc_fanouts EXCEPT ![es_calls[c].epoch] = @ + 1]
    /\ es_calls' = [es_calls EXCEPT ![c].pc = "returned",
                                    ![c].fanout_epoch = cc_epoch]
    /\ UNCHANGED <<mk_running, mk_worker, app_serving, cc_flag, cc_epoch, rs,
                   cc_broadcasts>>

\* POST /control/restart: restart_system writes its audit entry
RS_begin ==
    /\ OnlyCC
    /\ app_serving
    /\ rs.pc = "idle"
    /\ cc_epoch < MaxRestarts
    /\ rs' = [rs EXCEPT !.pc = "check"]
    /\ UNCHANGED <<mk_running, mk_worker, app_serving, sub_running, cc_flag,
                   cc_epoch, es_calls, cc_broadcasts, cc_fanouts>>

\* restart_system: "if not self._emergency_stop_triggered: await
\* self.emergency_stop(...)", else straight to the sleep
RS_check ==
    /\ OnlyCC
    /\ rs.pc = "check"
    /\ IF cc_flag
       THEN /\ rs' = [rs EXCEPT !.pc = "sleep"]
            /\ UNCHANGED <<es_calls, cc_flag>>
       ELSE /\ rs' = [rs EXCEPT !.pc = "inner"]
            /\ ES_invoke(0)
    /\ UNCHANGED <<mk_running, mk_worker, app_serving, sub_running, cc_epoch,
                   cc_broadcasts, cc_fanouts>>

\* restart_system: its own emergency_stop call has returned; sleep(2) begins
RS_stopped ==
    /\ OnlyCC
    /\ rs.pc = "inner"
    /\ es_calls[0].pc = "returned"
    /\ rs' = [rs EXCEPT !.pc = "sleep"]
    /\ UNCHANGED <<mk_running, mk_worker, app_serving, sub_running, cc_flag,
                   cc_epoch, es_calls, cc_broadcasts, cc_fanouts>>

\* what the start() of one agent of RestartOrder sets running
StartedBy(agent) == IF agent = "autonomous" THEN AutonomousStarts ELSE {agent}

\* restart_system after the sleep: the flag is cleared (without _lock) and
\* the first agent is started
RS_clear ==
    /\ OnlyCC
    /\ rs.pc = "sleep"
    /\ cc_flag' = FALSE
    /\ cc_epoch' = cc_epoch + 1
    /\ sub_running' = sub_running \cup StartedBy(RestartOrder[1])
    /\ rs' = [pc |-> "starting", next |-> 2]
    /\ UNCHANGED <<mk_running, mk_worker, app_serving, es_calls,
                   cc_broadcasts, cc_fanouts>>

\* restart_system: the next agent is started; AutonomousEngine.start() also
\* starts the LLM router, vision, browser, captcha and input agents that are
\* not running
RS_start_next ==
    /\ OnlyCC
    /\ rs.pc = "starting"
    /\ LET agent == RestartOrder[rs.next] IN
        /\ sub_running' = sub_running \cup StartedBy(agent)
        /\ IF agent = "autonomous"
           THEN InputStarted
           ELSE UNCHANGED <<mk_running, mk_worker>>
    /\ rs' = IF rs.next = Len(RestartOrder)
             THEN NoRestart
             ELSE [rs EXCEPT !.next = @ + 1]
    /\ UNCHANGED <<app_serving, cc_flag, cc_epoch, es_calls, cc_broadcasts,
                   cc_fanouts>>

(***************************************************************************)
(* main.py lifespan: the order of startup and shutdown                     *)
(***************************************************************************)
\* the components lifespan brings up before its yield and tests in its
\* finally block, in the order in which it creates or starts them
StartupOrder == <<"browser_agent", "coordinator", "input", "heartbeat",
                  "vision", "stealth_browser", "captcha", "plugin",
                  "multicore", "cache", "proxy", "local_inference", "llm",
                  "autonomous", "reasoning", "control_center">>

\* the order of the stop() and shutdown() calls of the finally block
ShutdownOrder == <<"control_center", "reasoning", "autonomous", "llm",
                   "local_inference", "proxy", "cache", "multicore",
                   "plugin", "captcha", "stealth_browser", "vision",
                   "heartbeat", "coordinator", "browser_agent", "input">>

\* only the start of the vision agent is inside a try block
StartGuarded == {"vision"}

Reverse(s) == [i \in 1..Len(s) |-> s[Len(s) + 1 - i]]

IsPrefix(s, t) == Len(s) <= Len(t) /\ \A i \in 1..Len(s) : s[i] = t[i]

Elements(s) == {s[i] : i \in 1..Len(s)}

LS_Init ==
    /\ ls_pc = "startup"
    /\ ls_next = 1
    /\ ls_started = <<>>
    /\ ls_stopped = <<>>

\* lifespan before the yield: the next component is created and started.
\* An exception of the vision agent's start() is caught and the global set
\* to None; any other exception leaves lifespan before the yield.
LS_start_next ==
    /\ OnlyLS
    /\ ls_pc = "startup"
    /\ LET c == StartupOrder[ls_next] IN
       \E ok \in BOOLEAN :
        /\ ls_started' = IF ok THEN Append(ls_started, c) ELSE ls_started
        /\ ls_pc' = IF ~ok /\ c \notin StartGuarded THEN "raised"
                    ELSE IF ls_next = Len(StartupOrder) THEN "serving"
                    ELSE "startup"
        /\ ls_next' = IF ~ok /\ c \notin StartGuarded THEN ls_next
                      ELSE IF ls_next = Len(StartupOrder) THEN 1
                      ELSE ls_next + 1
    /\ UNCHANGED ls_stopped

\* the server shuts down: control returns to lifespan after the yield
LS_shutdown ==
    /\ OnlyLS
    /\ ls_pc = "serving"
    /\ ls_pc' = "shutdown"
    /\ UNCHANGED <<ls_next, ls_started, ls_stopped>>

\* the finally block: the next component is stopped when its global is set;
\* an exception of a stop() leaves the block
LS_stop_next ==
    /\ OnlyLS
    /\ ls_pc = "shutdown"
    /\ LET c == ShutdownOrder[ls_next]
           last == ls_next = Len(ShutdownOrder) IN
       IF c \in Elements(ls_started)
       THEN \E ok \in BOOLEAN :
             /\ ls_stopped' = IF ok THEN Append(ls_stopped, c) ELSE ls_stopped
             /\ ls_pc' = IF ~ok THEN "raised" ELSE IF last THEN "done" ELSE "shutdown"
             /\ ls_next' = IF ok /\ ~last THEN ls_next + 1 ELSE ls_next
       ELSE /\ ls_stopped' = ls_stopped
            /\ ls_pc' = IF last THEN "done" ELSE "shutdown"
            /\ ls_next' = IF last THEN ls_next ELSE ls_next + 1
    /\ UNCHANGED ls_started

NextLifespan ==
    \/ LS_start_next
    \/ LS_shutdown
    \/ LS_stop_next

\* C29: shutdown stops the components in exactly the reverse of the order
\* in which startup started them: at every point of the shutdown the
\* components stopped so far are the last ones started, latest first.
C29_ReverseOrder ==
    ls_pc \in {"shutdown", "done"} => IsPrefix(ls_stopped, Reverse(ls_started))

(***************************************************************************)
(* AutonomousEngine                                                        *)
(***************************************************************************)
\* Python's None where the model holds strings
PyNone == "None"

\* the JSON document _save_workflow writes for a workflow: the keys status,
\* total_actions, completed_actions, failed_actions and reasoning_chain
\* (workflow_id, description, original_request and the timestamps never
\* change and are left out of the model, and so are the per-action entries)
AE_saved_document(wf) ==
    [status |-> wf.status, total_actions |-> wf.total_actions,
     completed_actions |-> wf.completed_actions,
     failed_actions |-> wf.failed_actions, recoveries |-> wf.recoveries]

\* Workflow(**document): the keys the document does not have take the
\* defaults of the dataclass, error None and current_action_index 0
AE_reloaded(document) ==
    [status |-> document.status, total_actions |-> document.total_actions,
     completed_actions |-> document.completed_actions,
     failed_actions |-> document.failed_actions,
     recoveries |-> document.recoveries,
     error |-> PyNone, current_action_index |-> 0]

\* the in-memory snapshot of a workflow: status, counters, error, current
\* index and reasoning chain
AE_snapshot(wf) ==
    [status |-> wf.status, total_actions |-> wf.total_actions,
     completed_actions |-> wf.completed_actions,
     failed_actions |-> wf.failed_actions, recoveries |-> wf.recoveries,
     error |-> wf.error, current_action_index |-> wf.current_action_index]

\* no file written
NoFile == [status |-> "none", total_actions |-> 0, completed_actions |-> 0,
           failed_actions |-> 0, recoveries |-> 0]

\* Workflow(...) as execute_request constructs it; recoveries counts the
\* "Recovery successful!" entries of reasoning_chain
NewWorkflow == [status |-> "planning", total_actions |-> 0,
                completed_actions |-> 0, failed_actions |-> 0,
                recoveries |-> 0, current_action_index |-> 0,
                error |-> PyNone,
                saved |-> FALSE, file |-> NoFile, pc |-> "plan"]

\* what json.loads makes of the planner's response text (of the bracketed
\* part when the regular expression finds one): a decode error, a list of
\* len items that are all well-formed action objects or not, a string of
\* len characters, an object, or a number, true, false or null
PlanResponses ==
    {[parsed |-> "error", len |-> 0, valid |-> FALSE],
     [parsed |-> "dict", len |-> 0, valid |-> FALSE],
     [parsed |-> "scalar", len |-> 0, valid |-> FALSE]}
    \cup [parsed : {"str"}, len : 0..1, valid : {FALSE}]
    \cup [parsed : {"list"}, len : 0..(MaxActions + 1), valid : BOOLEAN]

\* the fallback plan of _plan_workflow: one cli_execute action with the
\* request as its command
AE_fallback_plan == [fallback |-> TRUE, total_actions |-> 1]

\* _plan_workflow: actions_data[:max_actions] is walked and an Action built
\* of every item; any exception (decode error, slicing an object or a
\* scalar, indexing a character or a malformed item) gives the fallback plan
AE_plan_workflow(response, max_actions) ==
    LET n == IF response.len < max_actions THEN response.len ELSE max_actions
    IN  IF response.parsed \in {"error", "dict", "scalar"}
        THEN AE_fallback_plan
        ELSE IF n = 0
        THEN [fallback |-> FALSE, total_actions |-> 0]
        ELSE IF response.parsed = "list" /\ response.valid
        THEN [fallback |-> FALSE, total_actions |-> n]
        ELSE AE_fallback_plan

AE_Init == ae_workflows = <<>>

\* POST /autonomous/execute -> execute_request: the workflow is created and
\* registered; neither the endpoint nor execute_request reads _running or the
\* control center's flag.
AE_execute_request ==
    /\ OnlyAE
    /\ app_serving
    /\ Len(ae_workflows) < MaxWorkflows
    /\ ae_workflows' = Append(ae_workflows, NewWorkflow)

\* the fields execute_request sets when it moves on from action i: the next
\* action of the plan, or the end of the loop
AE_advance(wf) ==
    IF wf.current_action_index + 1 < wf.total_actions
    THEN [wf EXCEPT !.current_action_index = @ + 1, !.pc = "exec"]
    ELSE [wf EXCEPT !.pc = "finish"]

\* the requests of the model
PlanRequests == {"list files", "open page"}

\* parameters["command"] of the first action of a plan: the request in the
\* fallback plan, else whatever the response gave
AE_plan_command(plan, request) ==
    IF plan.fallback THEN request
    ELSE IF plan.total_actions = 0 THEN PyNone ELSE "from response"

NoPlanCall == [pc |-> "idle", request |-> PyNone,
               response |-> [parsed |-> "error", len |-> 0, valid |-> FALSE],
               max_actions |-> 0, fallback |-> FALSE, total_actions |-> 0,
               command |-> PyNone]

PLAN_Init == plan_call = NoPlanCall

\* _plan_workflow(request, max_actions) is called and self._llm.generate
\* returns a response
PLAN_generate ==
    /\ OnlyPLAN
    /\ plan_call.pc \in {"idle", "returned"}
    /\ \E request \in PlanRequests, response \in PlanResponses,
          max_actions \in 0..(MaxActions + 1) :
        plan_call' = [NoPlanCall EXCEPT !.pc = "parse", !.request = request,
                                        !.response = response,
                                        !.max_actions = max_actions]

\* _plan_workflow parses the response and returns the plan
PLAN_return ==
    /\ OnlyPLAN
    /\ plan_call.pc = "parse"
    /\ LET plan == AE_plan_workflow(plan_call.response, plan_call.max_actions)
       IN  plan_call' = [plan_call EXCEPT !.pc = "returned",
                                          !.fallback = plan.fallback,
                                          !.total_actions = plan.total_actions,
                                          !.command =
                                              AE_plan_command(plan, plan_call.request)]

NextPlan ==
    \/ PLAN_generate
    \/ PLAN_return

\* _plan_workflow returned the plan it made of the planner's response (the
\* action budget max_actions is MaxActions); the loop starts at action 0
AE_plan(w) ==
    /\ OnlyAE
    /\ ae_workflows[w].pc = "plan"
    /\ \E response \in PlanResponses :
        LET plan == AE_plan_workflow(response, MaxActions) IN
        ae_workflows' = [ae_workflows EXCEPT ![w] =
            [@ EXCEPT !.total_actions = plan.total_actions,
                      !.status = "executing",
                      !.pc = IF plan.total_actions = 0 THEN "finish" ELSE "exec"]]

\* execute_request: _execute_action ran the current action.  completed:
\* completed_actions + 1, _verify_action (changes no counter), next action.
\* failed: failed_actions + 1, then _attempt_recovery.
AE_execute_action(w) ==
    /\ OnlyAE
    /\ ae_workflows[w].pc = "exec"
    /\ \E action_status \in {"completed", "failed"} :
        ae_workflows' = [ae_workflows EXCEPT ![w] =
            IF action_status = "failed"
            THEN [@ EXCEPT !.failed_actions = @ + 1, !.pc = "recover"]
            ELSE AE_advance([@ EXCEPT !.completed_actions = @ + 1])]

\* completed_actions after a failed action was recovered
AE_recovered_completed_counted(wf) == wf.completed_actions + 1

AE_recovered_completed(wf) == wf.completed_actions

\* execute_request when _attempt_recovery returned False: status failed,
\* error set, break
AE_recovery_failed_continues(wf) ==
    AE_advance([wf EXCEPT !.status = "failed", !.error = "action failed"])

AE_recovery_failed(wf) ==
    [wf EXCEPT !.status = "failed", !.error = "action failed", !.pc = "finish"]

\* execute_request: _attempt_recovery returned.  True (a recovery action
\* completed, "Recovery successful!" is appended): the loop goes on.  False:
\* the workflow is failed and the loop is left.
AE_attempt_recovery(w) ==
    /\ OnlyAE
    /\ ae_workflows[w].pc = "recover"
    /\ \E recovery_successful \in BOOLEAN :
        ae_workflows' = [ae_workflows EXCEPT ![w] =
            IF recovery_successful
            THEN AE_advance([@ EXCEPT !.recoveries = @ + 1,
                                      !.completed_actions =
                                          AE_recovered_completed(ae_workflows[w])])
            ELSE AE_recovery_failed(ae_workflows[w])]

\* execute_request after the loop: executing becomes completed, completed_at
\* is set, _save_workflow writes the file (or fails, which it only logs)
AE_finish(w) ==
    /\ OnlyAE
    /\ ae_workflows[w].pc = "finish"
    /\ \E save_ok \in BOOLEAN :
        ae_workflows' = [ae_workflows EXCEPT ![w] =
            LET ended == [ae_workflows[w] EXCEPT
                              !.status = IF @ = "executing" THEN "completed" ELSE @]
            IN  [ended EXCEPT !.saved = save_ok,
                              !.file = IF save_ok THEN AE_saved_document(ended)
                                       ELSE NoFile,
                              !.pc = "done"]]

\* execute_request's "except Exception": anything raised while planning or
\* in the loop fails the workflow; nothing is saved
AE_exception(w) ==
    /\ OnlyAE
    /\ ae_workflows[w].pc \in {"plan", "exec", "recover"}
    /\ ae_workflows' = [ae_workflows EXCEPT ![w] =
            [@ EXCEPT !.status = "failed", !.error = "exception", !.pc = "done"]]

(***************************************************************************)
(* LLMOrchestrator                                                         *)
(***************************************************************************)
\* the providers of LLMProvider the model distinguishes: the three of
\* fallback_order and one that is not in it
CLAUDE_SONNET == "claude-sonnet-4-5"
GPT4_TURBO == "gpt-4-turbo"
OLLAMA_LLAMA == "ollama-llama3.2"
GEMINI_PRO == "gemini-pro"
LLMProvider == {CLAUDE_SONNET, GPT4_TURBO, OLLAMA_LLAMA, GEMINI_PRO}

\* _try_fallback's fallback_order
FallbackOrder == <<CLAUDE_SONNET, GPT4_TURBO, OLLAMA_LLAMA>>

\* the request count _select_llm_for_task compares total_requests with
MIN_REQUESTS == 10

NoProvider == "none"
NoError == "none"
NoResponse == [provider |-> NoProvider, response |-> "", error |-> NoError,
               fallback_from |-> NoProvider]

\* LLMStats(provider)
NewStats == [total_requests |-> 0, success_count |-> 0, error_count |-> 0,
             average_cost_per_request |-> 0, average_latency_ms |-> 0]

LlmCalls == 1..MaxLlmCalls

\* a generate call that has not been made
NoLlmCall == [pc |-> "idle", provider |-> NoProvider, next |-> 1, failed |-> {},
              error_count_before |-> 0, error_counted |-> 0,
              result |-> NoResponse]

LLM_Init ==
    /\ llm_stats = [p \in LLMProvider |-> NewStats]
    /\ llm_calls = [k \in LlmCalls |-> NoLlmCall]

\* generate(): the provider is selected (preferred_provider, or the outcome
\* of _select_llm_for_task, or the default) and _call_llm is awaited
LLM_generate(k) ==
    /\ OnlyLLM
    /\ llm_calls[k].pc = "idle"
    /\ \E provider \in LLMProvider :
        llm_calls' = [llm_calls EXCEPT ![k] =
            [@ EXCEPT !.pc = "primary", !.provider = provider,
                      !.error_count_before = llm_stats[provider].error_count]]
    /\ UNCHANGED llm_stats

\* generate(): _call_llm returned; the provider's statistics are updated and
\* the response is returned as the provider gave it
LLM_primary_success(k) ==
    /\ OnlyLLM
    /\ llm_calls[k].pc = "primary"
    /\ LET provider == llm_calls[k].provider IN
        /\ llm_stats' = [llm_stats EXCEPT ![provider].total_requests = @ + 1,
                                          ![provider].success_count = @ + 1]
        /\ \E text \in {"", "text"} :
            llm_calls' = [llm_calls EXCEPT ![k] =
                [@ EXCEPT !.pc = "returned",
                          !.result = [provider |-> provider, response |-> text,
                                      error |-> NoError,
                                      fallback_from |-> NoProvider]]]

\* generate()'s "except Exception": the provider's request and error
\* counters are incremented and _try_fallback is entered
LLM_primary_failure(k) ==
    /\ OnlyLLM
    /\ llm_calls[k].pc = "primary"
    /\ LET provider == llm_calls[k].provider IN
        /\ llm_stats' = [llm_stats EXCEPT ![provider].total_requests = @ + 1,
                                          ![provider].error_count = @ + 1]
        /\ llm_calls' = [llm_calls EXCEPT ![k] =
                [@ EXCEPT !.pc = "fallback", !.failed = {provider},
                          !.error_counted = @ + 1]]

\* metadata["fallback_from"] of a response obtained from a fallback provider
LLM_fallback_from_itself(call, provider) == provider

LLM_fallback_from(call, provider) == call.provider

\* where _try_fallback goes when a fallback provider raised: "continue"
LLM_fallback_failed_raises == "raised"

LLM_fallback_failed == "fallback"

\* _try_fallback: the next provider of fallback_order; the failed provider
\* is skipped, any other is called: its response is returned with the
\* fallback metadata, or its exception is logged and the loop continues.
\* No statistics are updated here.
LLM_try_fallback(k) ==
    /\ OnlyLLM
    /\ llm_calls[k].pc = "fallback"
    /\ llm_calls[k].next <= Len(FallbackOrder)
    /\ LET call == llm_calls[k]
           provider == FallbackOrder[call.next] IN
        IF provider = call.provider
        THEN llm_calls' = [llm_calls EXCEPT ![k].next = @ + 1]
        ELSE \/ \E text \in {"", "text"} :
                  llm_calls' = [llm_calls EXCEPT ![k] =
                      [@ EXCEPT !.pc = "returned",
                                !.result = [provider |-> provider,
                                            response |-> text,
                                            error |-> NoError,
                                            fallback_from |->
                                                LLM_fallback_from(call, provider)]]]
             \/ llm_calls' = [llm_calls EXCEPT ![k] =
                      [@ EXCEPT !.pc = LLM_fallback_failed,
                                !.next = @ + 1,
                                !.failed = @ \cup {provider}]]
    /\ UNCHANGED llm_stats

\* _try_fallback after the loop: "All LLMs failed" is returned as a response
LLM_all_failed(k) ==
    /\ OnlyLLM
    /\ llm_calls[k].pc = "fallback"
    /\ llm_calls[k].next > Len(FallbackOrder)
    /\ llm_calls' = [llm_calls EXCEPT ![k] =
            [@ EXCEPT !.pc = "returned",
                      !.result = [provider |-> llm_calls[k].provider,
                                  response |-> "",
                                  error |-> "All LLMs failed",
                                  fallback_from |-> NoProvider]]]
    /\ UNCHANGED llm_stats

(***************************************************************************)
(* Claims about the control plane                                          *)
(***************************************************************************)
ReturnedIn(e) ==
    {c \in AllCallers : es_calls[c].pc = "returned" /\ es_calls[c].epoch = e}

\* C4: between two clearings of the flag, emergency_stop broadcasts at most
\* once and fans out at most once; and when two invocations that overlapped
\* have both returned (and no other is in flight), exactly one
\* emergency_stop broadcast and exactly one fan-out shutdown have happened.
C4_EmergencyStopOnce ==
    \A e \in Epochs :
        /\ cc_broadcasts[e] <= 1
        /\ cc_fanouts[e] <= 1
        /\ \A c1, c2 \in AllCallers :
              ( /\ c1 # c2
                /\ c1 \in ReturnedIn(e)
                /\ c2 \in ReturnedIn(e)
                /\ es_calls[c1].concurrent \/ es_calls[c2].concurrent
                /\ InFlight(e) = {} )
              => (cc_broadcasts[e] = 1 /\ cc_fanouts[e] = 1)

\* C4 witness: two requests overlapped, one passed the guard and the other
\* returned on the flag, both have returned, one broadcast and one fan-out
C4_Witness ==
    \E c1, c2 \in Callers :
        /\ c1 # c2
        /\ es_calls[c1].pc = "returned" /\ es_calls[c1].passed
        /\ es_calls[c2].pc = "returned" /\ ~es_calls[c2].passed
        /\ es_calls[c2].concurrent
        /\ es_calls[c1].epoch = es_calls[c2].epoch
        /\ cc_broadcasts[es_calls[c1].epoch] = 1
        /\ cc_fanouts[es_calls[c1].epoch] = 1

\* an invocation of emergency_stop that passed the guard has run to its end
\* and restart_system has not cleared the flag since
EmergencyStopCompleted ==
    \E c \in AllCallers :
        /\ es_calls[c].pc = "returned"
        /\ es_calls[c].passed
        /\ es_calls[c].epoch = cc_epoch

\* C5: when emergency_stop has completed, no subsystem started at startup
\* has its running flag true.
C5_AllStoppedAfterEmergencyStop ==
    EmergencyStopCompleted => RunningSubsystems = {}

\* restart_system returns: its last agent has been started
RestartCompletes == rs.pc = "starting" /\ rs'.pc = "idle"

\* the invocations of emergency_stop that ran while restart_system was
\* starting the agents: invoked since the flag was cleared, or invoked
\* before and fanning out since, or still in flight
OverlappingCalls ==
    {c \in AllCallers :
        \/ es_calls[c].pc # "idle" /\ es_calls[c].epoch = cc_epoch
        \/ es_calls[c].pc = "returned" /\ es_calls[c].fanout_epoch = cc_epoch
        \/ es_calls[c].pc \in {"audit", "gather"}}

\* C26: when restart_system has completed, no emergency_stop having run
\* beside it, the flag is clear and every agent an emergency_stop had
\* stopped is running again; and an emergency_stop that runs to its end
\* after a restart made one broadcast and one fan-out.
C26_RestartRestores ==
    [][ /\ (RestartCompletes /\ OverlappingCalls = {}) =>
              /\ ~cc_flag'
              /\ \A c \in AllCallers :
                    (es_calls'[c].pc = "returned" /\ es_calls'[c].passed)
                    => es_calls'[c].stops \subseteq sub_running'
        /\ \A c \in Callers :
              (/\ es_calls'[c].pc = "returned"
               /\ es_calls'[c].passed
               /\ es_calls'[c].epoch > 0)
              => (/\ cc_broadcasts'[es_calls'[c].epoch] = 1
                  /\ cc_fanouts'[es_calls'[c].epoch] = 1)
      ]_vars

\* C26 witness: an emergency_stop stopped all six agents, restart_system
\* ran to its end, and a later emergency_stop requested after it has passed
\* the guard and returned
C26_Witness ==
    /\ rs.pc = "idle"
    /\ cc_epoch = 1
    /\ \E c1, c2 \in Callers :
          /\ es_calls[c1].pc = "returned" /\ es_calls[c1].passed
          /\ es_calls[c1].epoch = 0 /\ es_calls[c1].fanout_epoch = 0
          /\ es_calls[c1].stops = EmergencyStopTargets
          /\ es_calls[c2].pc = "returned" /\ es_calls[c2].passed
          /\ es_calls[c2].epoch = 1
          /\ es_calls[c2].stops = EmergencyStopTargets

\* restart_system and every invocation of emergency_stop have returned
AllCallsReturned ==
    /\ rs.pc = "idle"
    /\ \A c \in AllCallers : es_calls[c].pc \in {"idle", "returned"}

\* C34: an emergency stop is never lost: once restart_system and every
\* invocation of emergency_stop have returned, a request for an emergency
\* stop that was made since the flag was last cleared (while restart_system
\* was starting the agents, or while another emergency_stop was in
\* progress) has left the flag set and the agents stopped.
C34_EmergencyStopNotLost ==
    (/\ AllCallsReturned
     /\ \E c \in Callers : /\ es_calls[c].pc = "returned"
                           /\ es_calls[c].epoch = cc_epoch)
    => (cc_flag /\ EmergencyStopTargets \cap sub_running = {})

\* C6: after emergency_stop has completed and until restart is invoked, no
\* autonomous execute request starts a workflow.
C6_StoppedRejectsSubmissions ==
    [][ (EmergencyStopCompleted /\ rs.pc = "idle")
            => ae_workflows' = ae_workflows ]_vars

(***************************************************************************)
(* Claims about the autonomous planner                                     *)
(***************************************************************************)
\* C10: for every workflow, completed_actions + failed_actions never exceeds
\* the number of planned actions; and a completed workflow has no failed
\* action or as many successful recoveries as failed actions.
C10_WorkflowCounters ==
    \A w \in DOMAIN ae_workflows :
        LET wf == ae_workflows[w] IN
        /\ wf.completed_actions + wf.failed_actions <= wf.total_actions
        /\ wf.status = "completed" =>
              \/ wf.failed_actions = 0
              \/ wf.failed_actions = wf.recoveries

\* C10 witness: a completed workflow of two actions, one of which failed and
\* was recovered
C10_Witness ==
    \E w \in DOMAIN ae_workflows :
        LET wf == ae_workflows[w] IN
        /\ wf.status = "completed"
        /\ wf.total_actions = 2
        /\ wf.failed_actions = 1
        /\ wf.recoveries = 1
        /\ wf.completed_actions = 1

\* C20: every workflow whose execute_request has ended (status completed or
\* failed, also after an exception in planning or execution) has been
\* written to its JSON file.
C20_TerminalWorkflowSaved ==
    \A w \in DOMAIN ae_workflows :
        ae_workflows[w].pc = "done" =>
            /\ ae_workflows[w].status \in {"completed", "failed"}
            /\ ae_workflows[w].saved

\* C21: the document written for a workflow at its terminal transition,
\* read back, equals the in-memory snapshot of the workflow (status,
\* counters, error, current index, reasoning chain).
C21_ReloadEqualsSnapshot ==
    \A w \in DOMAIN ae_workflows :
        (ae_workflows[w].pc = "done" /\ ae_workflows[w].saved) =>
            AE_reloaded(ae_workflows[w].file) = AE_snapshot(ae_workflows[w])

\* C22: the plan made of a response without a parseable JSON array is the
\* fallback plan: one cli_execute action, total_actions = 1.
C22_FallbackPlan ==
    (plan_call.pc = "returned" /\ plan_call.response.parsed # "list") =>
        /\ plan_call.fallback
        /\ plan_call.total_actions = 1
        /\ plan_call.command = plan_call.request

\* C23: once a workflow is failed (an action failed and its recovery
\* failed), no further action of it is executed: its counters and its
\* current action index do not change and it never leaves failed.
C23_FailedAborts ==
    [][ \A w \in DOMAIN ae_workflows :
            ae_workflows[w].status = "failed" =>
                /\ ae_workflows'[w].status = "failed"
                /\ ae_workflows'[w].completed_actions = ae_workflows[w].completed_actions
                /\ ae_workflows'[w].failed_actions = ae_workflows[w].failed_actions
                /\ ae_workflows'[w].current_action_index =
                       ae_workflows[w].current_action_index
                /\ ae_workflows'[w].pc \in {"finish", "done"}
      ]_vars

\* C23 witness: a workflow of two planned actions whose first action failed
\* without recovery has ended failed with the second action never run
C23_Witness ==
    \E w \in DOMAIN ae_workflows :
        LET wf == ae_workflows[w] IN
        /\ wf.pc = "done"
        /\ wf.status = "failed"
        /\ wf.error = "action failed"
        /\ wf.total_actions = 2
        /\ wf.current_action_index = 0
        /\ wf.failed_actions = 1
        /\ wf.completed_actions = 0

(***************************************************************************)
(* Claims about the LLM router                                             *)
(***************************************************************************)
\* the calls that returned a fallback provider's response
FallbackSucceeded ==
    {k \in LlmCalls : /\ llm_calls[k].pc = "returned"
                      /\ llm_calls[k].failed # {}
                      /\ llm_calls[k].result.error = NoError}

FallbackProviders(call) ==
    {FallbackOrder[i] : i \in 1..Len(FallbackOrder)} \ {call.provider}

\* C9: no generate call ends by raising; and a call whose selected provider
\* and every fallback provider failed has returned a response with error
\* set and empty text.
C9_NeverRaises ==
    \A k \in LlmCalls :
        LET call == llm_calls[k] IN
        /\ call.pc # "raised"
        /\ ( /\ call.pc \in {"returned", "raised"}
             /\ call.failed = {call.provider} \cup FallbackProviders(call) )
           => /\ call.pc = "returned"
              /\ call.result.error # NoError
              /\ call.result.response = ""

\* C9 witness: a call selected a provider outside fallback_order, all four
\* providers failed, and it returned the error response
C9_Witness ==
    \E k \in LlmCalls :
        /\ llm_calls[k].pc = "returned"
        /\ llm_calls[k].provider = GEMINI_PRO
        /\ llm_calls[k].failed = LLMProvider
        /\ llm_calls[k].result.error # NoError

\* the provider whose _call_llm ended in this step of call k: it failed, or
\* its response is returned
LLM_call_ended(k, provider) ==
    \/ provider \in llm_calls'[k].failed \ llm_calls[k].failed
    \/ /\ llm_calls[k].pc # "returned"
       /\ llm_calls'[k].pc = "returned"
       /\ llm_calls'[k].result.error = NoError
       /\ llm_calls'[k].result.provider = provider

\* C19: whenever a provider's invocation ends during a generate call (the
\* selected provider or a fallback provider that was tried), that provider's
\* request count grows by one and exactly one of its success count and
\* error count grows by one.
C19_InvokedProviderCounted ==
    [][ \A k \in LlmCalls, provider \in LLMProvider :
            LLM_call_ended(k, provider) =>
                LET before == llm_stats[provider]
                    after == llm_stats'[provider]
                IN  /\ after.total_requests = before.total_requests + 1
                    /\ \/ /\ after.success_count = before.success_count + 1
                          /\ after.error_count = before.error_count
                       \/ /\ after.success_count = before.success_count
                          /\ after.error_count = before.error_count + 1
      ]_vars

(***************************************************************************)
(* LLMOrchestrator._select_llm_for_task                                    *)
(***************************************************************************)
\* the task types of the model: three with an entry in TASK_PREFERENCES over
\* the model's providers, and one without an entry
CODE_REVIEW == "code_review"
ANALYSIS == "analysis"
CONVERSATION == "conversation"
TRANSLATION == "translation"
TaskType == {CODE_REVIEW, ANALYSIS, CONVERSATION, TRANSLATION}

\* TASK_PREFERENCES.get(task_type, [CLAUDE_SONNET])
TASK_PREFERENCES(task_type) ==
    CASE task_type = CODE_REVIEW -> <<CLAUDE_SONNET, GPT4_TURBO>>
      [] task_type = ANALYSIS -> <<CLAUDE_SONNET, GPT4_TURBO, GEMINI_PRO>>
      [] task_type = CONVERSATION -> <<CLAUDE_SONNET, GPT4_TURBO, OLLAMA_LLAMA>>
      [] OTHER -> <<CLAUDE_SONNET>>

\* the statistics a stats file can hold: no request yet, or MIN_REQUESTS to
\* MaxRequests requests of which none, half or just over half failed
RequestCounts == {0} \cup (MIN_REQUESTS..MaxRequests)
StatsSamples ==
    {[total_requests |-> te[1], success_count |-> te[1] - te[2],
      error_count |-> te[2],
      average_cost_per_request |-> 0, average_latency_ms |-> 0] :
        te \in {te \in RequestCounts \X (0..MaxRequests) :
                  /\ te[2] <= te[1]
                  /\ te[2] \in {0, te[1] \div 2, te[1] \div 2 + 1}}}

\* the availability test of _select_llm_for_task: more than MIN_REQUESTS
\* requests and an error rate above 0.5
LLM_too_many_errors(stats) ==
    /\ stats.total_requests > MIN_REQUESTS
    /\ 2 * stats.error_count > stats.total_requests

\* the ceilings a caller passes: None, or a number of cost or latency units
Ceilings == {None} \cup (0..MaxAverage)

\* Python's truth value of an Optional[float]: None and 0 are false
PyTruthy(x) == x # None /\ x # 0

\* "if max_cost_usd and stats.average_cost_per_request > max_cost_usd" and
\* the same test of the latency
LLM_over_limit(stats, max_cost_usd, max_latency_ms) ==
    \/ PyTruthy(max_cost_usd) /\ stats.average_cost_per_request > max_cost_usd
    \/ PyTruthy(max_latency_ms) /\ stats.average_latency_ms > max_latency_ms

\* the loop of _select_llm_for_task over the preferences: the first provider
\* that neither constraint excludes and that is available; OLLAMA_LLAMA when
\* no preference is left
RECURSIVE LLM_select(_, _, _, _)
LLM_select(preferences, stats, max_cost_usd, max_latency_ms) ==
    IF preferences = <<>>
    THEN OLLAMA_LLAMA
    ELSE IF \/ LLM_over_limit(stats[Head(preferences)], max_cost_usd,
                              max_latency_ms)
            \/ LLM_too_many_errors(stats[Head(preferences)])
         THEN LLM_select(Tail(preferences), stats, max_cost_usd, max_latency_ms)
         ELSE Head(preferences)

NoSelection == [task_type |-> "none", provider |-> NoProvider,
                max_cost_usd |-> None, max_latency_ms |-> None]

SEL_Init ==
    /\ llm_loaded = FALSE
    /\ llm_selection = NoSelection

\* start(): _load_stats reads the statistics an earlier run saved
LLM_load_stats ==
    /\ OnlySEL
    /\ ~llm_loaded
    /\ llm_loaded' = TRUE
    /\ llm_stats' \in [LLMProvider -> StatsSamples]
    /\ UNCHANGED llm_selection

\* _select_llm_for_task(task_type, max_cost_usd, max_latency_ms)
LLM_select_llm_for_task ==
    /\ OnlySEL
    /\ \E task_type \in TaskType, max_cost_usd, max_latency_ms \in Ceilings :
        llm_selection' =
            [task_type |-> task_type,
             provider |-> LLM_select(TASK_PREFERENCES(task_type), llm_stats,
                                     max_cost_usd, max_latency_ms),
             max_cost_usd |-> max_cost_usd,
             max_latency_ms |-> max_latency_ms]
    /\ UNCHANGED <<llm_loaded, llm_stats>>

\* statistics with averages: a provider used once, at a cost and a latency
\* of 0..MaxAverage units, or one with too many errors
CeilingSamples ==
    {[total_requests |-> 1, success_count |-> 1, error_count |-> 0,
      average_cost_per_request |-> c, average_latency_ms |-> l] :
        c \in 0..MaxAverage, l \in 0..MaxAverage}
    \cup {[total_requests |-> MIN_REQUESTS + 1, success_count |-> 0,
           error_count |-> MIN_REQUESTS + 1,
           average_cost_per_request |-> 0, average_latency_ms |-> 0]}

NextSelect ==
    \/ LLM_load_stats
    \/ LLM_select_llm_for_task

NextCeiling == LLM_select_llm_for_task

\* C18: the selected provider never has an error rate above 0.5 over at
\* least 10 recorded requests.
C18_UnhealthySkipped ==
    llm_selection.provider # NoProvider =>
        LET stats == llm_stats[llm_selection.provider]
        IN  ~(/\ stats.total_requests >= 10
              /\ 2 * stats.error_count > stats.total_requests)

\* the providers of a preference list a selection may return: average cost
\* and average latency within the ceilings that were supplied, and available
Eligible(stats, max_cost_usd, max_latency_ms) ==
    /\ max_cost_usd # None => stats.average_cost_per_request <= max_cost_usd
    /\ max_latency_ms # None => stats.average_latency_ms <= max_latency_ms
    /\ ~LLM_too_many_errors(stats)

RECURSIVE FirstEligible(_, _, _, _)
FirstEligible(preferences, stats, max_cost_usd, max_latency_ms) ==
    IF preferences = <<>>
    THEN OLLAMA_LLAMA
    ELSE IF Eligible(stats[Head(preferences)], max_cost_usd, max_latency_ms)
         THEN Head(preferences)
         ELSE FirstEligible(Tail(preferences), stats, max_cost_usd,
                            max_latency_ms)

\* C30: for every supplied ceiling, 0 included, the selection returns the
\* first provider of the preference order whose average cost and average
\* latency are within the ceilings and which passes the health check, and
\* the local OLLAMA_LLAMA when there is none.
C30_WithinCeilings ==
    llm_selection.provider # NoProvider =>
        llm_selection.provider =
            FirstEligible(TASK_PREFERENCES(llm_selection.task_type), llm_stats,
                          llm_selection.max_cost_usd,
                          llm_selection.max_latency_ms)

(***************************************************************************)
(* The policy gate of the components that read the file once, in start()   *)
(* (plugin_manager.py, proxy_manager.py; captcha_manager.py,               *)
(* local_inference.py, stealth_browser_agent.py and vision_agent.py have   *)
(* the same _load_config / _check_authorization pair)                      *)
(***************************************************************************)
\* the gated components of the model and the feature flag each one reads
GatedComponents == {"input", "plugin", "proxy"}
CachingComponents == {"plugin", "proxy"}
FeatureOf(component) ==
    CASE component = "input" -> "control_mouse_keyboard"
      [] component = "plugin" -> "plugin_system"
      [] component = "proxy" -> "proxy_rotation"
Capabilities == {FeatureOf(component) : component \in GatedComponents}

\* the policy files of the gate's specification: every mapping over the
\* three capabilities, no file, an empty file (yaml.safe_load gives None),
\* and an allowing text that is not valid YAML
PolicyEmpty == [file |-> "empty", operator_enabled |-> FALSE, features |-> {}]
PolicyUnparsable == [file |-> "unparsable", operator_enabled |-> TRUE,
                     features |-> Capabilities]
GatePolicyFiles ==
    [file : {"ok"}, operator_enabled : BOOLEAN, features : SUBSET Capabilities]
    \cup {PolicyMissing, PolicyEmpty, PolicyUnparsable}

\* self._config = {} of __init__, and the value _load_config stores when
\* reading or parsing raised
ConfigInit == [file |-> "ok", operator_enabled |-> FALSE, features |-> {}]
ConfigDenied == [file |-> "ok", operator_enabled |-> FALSE, features |-> {}]

\* _load_config: self._config after reading the file p
LoadedConfig_as_read(p) == p

LoadedConfig(p) ==
    IF p.file \in {"missing", "unparsable"} THEN ConfigDenied ELSE p

\* _check_authorization of a caching component on its self._config: raises
\* AttributeError when the config is None, else master flag and feature flag
Gate_raises(config) == config.file = "empty"

Gate_check_authorization(config, feature) ==
    /\ ~Gate_raises(config)
    /\ config.operator_enabled
    /\ feature \in config.features

NoAuth == [component |-> "none", source |-> ConfigInit, answer |-> FALSE,
           raised |-> FALSE]

Gate_Init ==
    /\ gate_source = [c \in CachingComponents |-> ConfigInit]
    /\ gate_config = [c \in CachingComponents |-> ConfigInit]
    /\ auth = NoAuth

\* the operator writes any policy file
Policy_write ==
    /\ OnlyGate
    /\ \E p \in GatePolicyFiles : p # policy /\ policy' = p
    /\ UNCHANGED <<gate_source, gate_config, auth>>

\* start() of a caching component: _load_config
Gate_load_config(c) ==
    /\ OnlyGate
    /\ gate_source' = [gate_source EXCEPT ![c] = policy]
    /\ gate_config' = [gate_config EXCEPT ![c] = LoadedConfig(policy)]
    /\ UNCHANGED <<policy, auth>>

\* a privileged call of the input agent: _check_authorization reads the file
MK_privileged_call ==
    /\ OnlyGate
    /\ auth' = [component |-> "input", source |-> policy,
                answer |-> MK_check_authorization(policy), raised |-> FALSE]
    /\ UNCHANGED <<policy, gate_source, gate_config>>

\* a privileged call of a caching component (load_plugin, get_proxy, ...):
\* _check_authorization reads self._config
Gate_privileged_call(c) ==
    /\ OnlyGate
    /\ auth' = [component |-> c, source |-> gate_source[c],
                answer |-> Gate_check_authorization(gate_config[c], FeatureOf(c)),
                raised |-> Gate_raises(gate_config[c])]
    /\ UNCHANGED <<policy, gate_source, gate_config>>

NextGate ==
    \/ Policy_write
    \/ \E c \in CachingComponents : Gate_load_config(c)
    \/ MK_privileged_call
    \/ \E c \in CachingComponents : Gate_privileged_call(c)

(***************************************************************************)
(* Claims about the policy gate                                            *)
(***************************************************************************)
\* the specification's rule: master flag and feature flag of a readable,
\* parsable policy file
Authorized(p, feature) ==
    /\ p.file = "ok"
    /\ p.operator_enabled
    /\ feature \in p.features

C13_NoCachedAnswer ==
    [][ (auth' # auth /\ ~Authorized(policy, FeatureOf(auth'.component)))
            => ~auth'.answer ]_vars

(***************************************************************************)
(* CacheManager (aurora_pro/cache_manager.py)                              *)
(***************************************************************************)
\* the cache keys f"{namespace}:{key}" and the values of the model; None is
\* a value set() accepts like any other
CacheKeys == {"ns:k1", "ns:k2"}
CacheValues == {"v1", "v2", PyNone}
Absent == "absent"
Tiers == {"memory", "disk", "redis"}

\* len(pickle.dumps(value))
SizeOf(value) == IF value = "v2" THEN 2 ELSE 1

\* MemoryCache._cache is an OrderedDict: a sequence of entries, least
\* recently used first
MemKeys(cache) == {cache[i].key : i \in DOMAIN cache}
MemIndex(cache, key) == CHOOSE i \in DOMAIN cache : cache[i].key = key
MemRemove(cache, key) ==
    SelectSeq(cache, LAMBDA entry : entry.key # key)

\* MemoryCache.get: the value (None when absent) and the cache with the
\* entry moved to the end
MemGetValue(cache, key) ==
    IF key \in MemKeys(cache) THEN cache[MemIndex(cache, key)].value ELSE PyNone

MemGetCache(cache, key) ==
    IF key \in MemKeys(cache)
    THEN Append(MemRemove(cache, key), cache[MemIndex(cache, key)])
    ELSE cache

\* MemoryCache.set, the eviction loop: pop the least recently used entry
\* while the byte counter plus the new size exceeds the maximum
RECURSIVE MemEvict(_, _, _)
MemEvict(cache, bytes, size) ==
    IF bytes + size > MaxMemoryBytes /\ cache # <<>>
    THEN MemEvict(Tail(cache), bytes - Head(cache).size, size)
    ELSE [cache |-> cache, bytes |-> bytes]

\* MemoryCache.set: evict, then self._cache[key] = entry (an existing key
\* keeps its position) and the byte counter grows by the new size; the size
\* of an overwritten entry is not subtracted.  The entry's timestamp is the
\* time of the call, plus the ttl when one is given and is not 0; the entry
\* of the model also keeps the ttl it was stored with.
MemTimestamp(ttl) == IF ttl # None /\ ttl # 0 THEN cm_now + ttl ELSE cm_now

MemSet(cache, bytes, key, value, ttl) ==
    LET evicted == MemEvict(cache, bytes, SizeOf(value))
        entry == [key |-> key, value |-> value, size |-> SizeOf(value),
                  timestamp |-> MemTimestamp(ttl), ttl |-> ttl]
    IN  [cache |-> IF key \in MemKeys(evicted.cache)
                   THEN [evicted.cache EXCEPT ![MemIndex(evicted.cache, key)] = entry]
                   ELSE Append(evicted.cache, entry),
         bytes |-> evicted.bytes + SizeOf(value)]

\* MemoryCache.delete
MemDelete(cache, bytes, key) ==
    IF key \in MemKeys(cache)
    THEN [cache |-> MemRemove(cache, key),
          bytes |-> bytes - cache[MemIndex(cache, key)].size]
    ELSE [cache |-> cache, bytes |-> bytes]

\* DiskCache / RedisCache get, set, delete: the call takes effect when the
\* tier is available and the backend call does not raise (ok); otherwise
\* get returns None and set and delete return without a change.  Within one
\* set or delete of the manager the backends of both tiers fail together.
TierGet(store, available, ok, key) ==
    IF available /\ ok /\ store[key] # Absent THEN store[key] ELSE PyNone

TierSet(store, available, ok, key, value) ==
    IF available /\ ok THEN [store EXCEPT ![key] = value] ELSE store

TierDelete(store, available, ok, key) ==
    IF available /\ ok THEN [store EXCEPT ![key] = Absent] ELSE store

\* the expiry the backend keeps with a key: set(key, value, expire=ttl) and
\* setex(key, ttl, data) when a ttl is given and is not 0, none otherwise
TierExpire(expire, available, ok, key, ttl) ==
    IF available /\ ok
    THEN [expire EXCEPT ![key] = IF ttl # None /\ ttl # 0
                                 THEN cm_now + ttl ELSE None]
    ELSE expire

\* the backend no longer returns a key whose expiry has passed
Expired(expire, key) == expire[key] # None /\ expire[key] <= cm_now

TTLs == 1..MaxTTL

\* CacheManager.get: the write-back of a lower-tier hit into the memory cache
CM_promote_skipped(cache, bytes, key, value) == [cache |-> cache, bytes |-> bytes]

CM_promote(cache, bytes, key, value) == MemSet(cache, bytes, key, value, None)

NoCacheOp == [op |-> "none", key |-> "none", value |-> PyNone, tier |-> "none",
              prev_op |-> "none", prev_tier |-> "none"]

\* the record of a manager call, with the call before it when that one had
\* the same key
CacheOp(op, key, value, tier) ==
    [op |-> op, key |-> key, value |-> value, tier |-> tier,
     prev_op |-> IF cm_last.key = key THEN cm_last.op ELSE "none",
     prev_tier |-> IF cm_last.key = key THEN cm_last.tier ELSE "none"]

CM_Init ==
    /\ cm_running = FALSE
    /\ disk_available = FALSE
    /\ redis_available = FALSE
    /\ mem_cache = <<>>
    /\ mem_bytes = 0
    /\ disk_cache = [k \in CacheKeys |-> Absent]
    /\ redis_cache = [k \in CacheKeys |-> Absent]
    /\ cm_last = NoCacheOp
    /\ cm_ops = 0
    /\ cm_now = 0
    /\ disk_expire = [k \in CacheKeys |-> None]
    /\ redis_expire = [k \in CacheKeys |-> None]

\* CacheManager.start: DiskCache.start and RedisCache.start set _available
CM_start ==
    /\ OnlyCM
    /\ ~cm_running
    /\ cm_running' = TRUE
    /\ disk_available' \in BOOLEAN
    /\ redis_available' \in BOOLEAN
    /\ UNCHANGED <<mem_cache, mem_bytes, disk_cache, redis_cache, cm_last, cm_ops,
                   cm_now, disk_expire, redis_expire>>

\* CacheManager.set(namespace, key, value, ttl, tiers): tiers None or empty
\* selects all three; the ttl is one of ttls
CM_set_with(ttls) ==
    /\ cm_ops < MaxCacheOps
    /\ \E key \in CacheKeys, value \in CacheValues, tiers \in SUBSET Tiers,
          backend_ok \in BOOLEAN, ttl \in ttls :
        LET selected == IF tiers = {} THEN Tiers ELSE tiers
            memory == IF "memory" \in selected
                      THEN MemSet(mem_cache, mem_bytes, key, value, ttl)
                      ELSE [cache |-> mem_cache, bytes |-> mem_bytes]
        IN  /\ mem_cache' = memory.cache
            /\ mem_bytes' = memory.bytes
            /\ disk_cache' = IF "disk" \in selected
                             THEN TierSet(disk_cache, disk_available, backend_ok, key, value)
                             ELSE disk_cache
            /\ disk_expire' = IF "disk" \in selected
                              THEN TierExpire(disk_expire, disk_available, backend_ok, key, ttl)
                              ELSE disk_expire
            /\ redis_cache' = IF "redis" \in selected
                              THEN TierSet(redis_cache, redis_available, backend_ok, key, value)
                              ELSE redis_cache
            /\ redis_expire' = IF "redis" \in selected
                               THEN TierExpire(redis_expire, redis_available, backend_ok, key, ttl)
                               ELSE redis_expire
            /\ cm_last' = CacheOp("set", key, value,
                                  IF tiers = {} THEN "default" ELSE "selected")
    /\ cm_ops' = cm_ops + 1
    /\ UNCHANGED <<cm_running, disk_available, redis_available, cm_now>>

\* set without a ttl
CM_set ==
    /\ OnlyCM
    /\ CM_set_with({None})

\* set with a ttl
CM_set_ttl ==
    /\ OnlyCM
    /\ CM_set_with(TTLs)

\* time passes
CM_tick ==
    /\ OnlyCM
    /\ cm_now < MaxCacheClock
    /\ cm_now' = cm_now + 1
    /\ UNCHANGED <<cm_running, disk_available, redis_available, mem_cache,
                   mem_bytes, disk_cache, redis_cache, cm_last, cm_ops,
                   disk_expire, redis_expire>>

\* clear_namespace: clears the memory and the disk tier whatever the
\* namespace, not redis
CM_clear_namespace ==
    /\ OnlyCM
    /\ cm_ops < MaxCacheOps
    /\ mem_cache' = <<>>
    /\ mem_bytes' = 0
    /\ \E backend_ok \in BOOLEAN :
          disk_cache' = IF disk_available /\ backend_ok
                        THEN [k \in CacheKeys |-> Absent]
                        ELSE disk_cache
    /\ cm_last' = CacheOp("clear", "none", PyNone, "none")
    /\ cm_ops' = cm_ops + 1
    /\ UNCHANGED <<cm_running, disk_available, redis_available, redis_cache,
                   cm_now, disk_expire, redis_expire>>

\* clear_all: clears the three tiers
CM_clear_all ==
    /\ OnlyCM
    /\ cm_ops < MaxCacheOps
    /\ mem_cache' = <<>>
    /\ mem_bytes' = 0
    /\ \E backend_ok \in BOOLEAN :
          /\ disk_cache' = IF disk_available /\ backend_ok
                           THEN [k \in CacheKeys |-> Absent]
                           ELSE disk_cache
          /\ redis_cache' = IF redis_available /\ backend_ok
                            THEN [k \in CacheKeys |-> Absent]
                            ELSE redis_cache
    /\ cm_last' = CacheOp("clear", "none", PyNone, "none")
    /\ cm_ops' = cm_ops + 1
    /\ UNCHANGED <<cm_running, disk_available, redis_available, cm_now,
                   disk_expire, redis_expire>>

\* CacheManager.get(namespace, key): memory, then disk (hit: write back to
\* memory), then redis (hit: write back to memory and disk), else a miss
CM_get ==
    /\ OnlyCM
    /\ cm_ops < MaxCacheOps
    /\ \E key \in CacheKeys, disk_ok \in BOOLEAN, redis_ok \in BOOLEAN,
          write_ok \in BOOLEAN :
        LET from_memory == MemGetValue(mem_cache, key)
            touched == MemGetCache(mem_cache, key)
            from_disk == IF Expired(disk_expire, key) THEN PyNone
                         ELSE TierGet(disk_cache, disk_available, disk_ok, key)
            from_redis == IF Expired(redis_expire, key) THEN PyNone
                          ELSE TierGet(redis_cache, redis_available, redis_ok, key)
        IN  IF from_memory # PyNone
            THEN /\ mem_cache' = touched
                 /\ cm_last' = CacheOp("get", key, from_memory, "memory")
                 /\ UNCHANGED <<mem_bytes, disk_cache, disk_expire>>
            ELSE IF from_disk # PyNone
            THEN LET promoted == CM_promote(touched, mem_bytes, key, from_disk)
                 IN  /\ mem_cache' = promoted.cache
                     /\ mem_bytes' = promoted.bytes
                     /\ cm_last' = CacheOp("get", key, from_disk, "disk")
                     /\ UNCHANGED <<disk_cache, disk_expire>>
            ELSE IF from_redis # PyNone
            THEN LET promoted == CM_promote(touched, mem_bytes, key, from_redis)
                 IN  /\ mem_cache' = promoted.cache
                     /\ mem_bytes' = promoted.bytes
                     /\ disk_cache' = TierSet(disk_cache, disk_available,
                                              write_ok, key, from_redis)
                     /\ disk_expire' = TierExpire(disk_expire, disk_available,
                                                  write_ok, key, None)
                     /\ cm_last' = CacheOp("get", key, from_redis, "redis")
            ELSE /\ mem_cache' = touched
                 /\ cm_last' = CacheOp("get", key, PyNone, "miss")
                 /\ UNCHANGED <<mem_bytes, disk_cache, disk_expire>>
    /\ cm_ops' = cm_ops + 1
    /\ UNCHANGED <<cm_running, disk_available, redis_available, redis_cache,
                   cm_now, redis_expire>>

\* CacheManager.delete(namespace, key): delete from the three tiers
CM_delete ==
    /\ OnlyCM
    /\ cm_ops < MaxCacheOps
    /\ \E key \in CacheKeys, backend_ok \in BOOLEAN :
        LET memory == MemDelete(mem_cache, mem_bytes, key)
        IN  /\ mem_cache' = memory.cache
            /\ mem_bytes' = memory.bytes
            /\ disk_cache' = TierDelete(disk_cache, disk_available, backend_ok, key)
            /\ redis_cache' = TierDelete(redis_cache, redis_available, backend_ok, key)
            /\ disk_expire' = TierExpire(disk_expire, disk_available, backend_ok, key, None)
            /\ redis_expire' = TierExpire(redis_expire, redis_available, backend_ok, key, None)
            /\ cm_last' = CacheOp("delete", key, PyNone, "none")
    /\ cm_ops' = cm_ops + 1
    /\ UNCHANGED <<cm_running, disk_available, redis_available, cm_now>>

NextCache ==
    \/ CM_start
    \/ CM_set
    \/ CM_get
    \/ CM_delete

\* the cache with time passing and entries that have a ttl
NextExpiry ==
    \/ CM_start
    \/ CM_set_ttl
    \/ CM_get
    \/ CM_tick

\* the cache with the calls that clear it
NextClear ==
    \/ CM_start
    \/ CM_set
    \/ CM_get
    \/ CM_delete
    \/ CM_clear_namespace
    \/ CM_clear_all

(***************************************************************************)
(* Claims about the cache                                                  *)
(***************************************************************************)
\* this step is a get of the key of the call before it
GetOfLastKey ==
    /\ cm_ops' = cm_ops + 1
    /\ cm_last'.op = "get"
    /\ cm_last'.key = cm_last.key

\* C15: a set with the default tiers immediately followed by a get of the
\* same key returns the value that was set, from the memory tier.
C15_SetThenGet ==
    [][ (cm_last.op = "set" /\ cm_last.tier = "default" /\ GetOfLastKey)
            => /\ cm_last'.value = cm_last.value
               /\ cm_last'.tier = "memory" ]_vars

C17_DeleteThenMiss ==
    [][ (cm_last.op = "delete" /\ cm_last.prev_op = "set" /\ GetOfLastKey)
            => cm_last'.tier = "miss" ]_vars

\* the sum of the sizes of the entries of the memory tier
RECURSIVE SumOfSizes(_)
SumOfSizes(cache) ==
    IF cache = <<>> THEN 0 ELSE Head(cache).size + SumOfSizes(Tail(cache))

\* C35: a get of a key right after a set of that key, whatever tiers the
\* set selected and whatever sets, deletes, promotions and evictions came
\* before, returns a miss or the value of that set, never an older value
\* (for a set of a value other than None, which a get reports as a miss).
C35_NoOlderValue ==
    [][ (cm_last.op = "set" /\ cm_last.value # PyNone /\ GetOfLastKey)
            => \/ cm_last'.tier = "miss"
               \/ cm_last'.value = cm_last.value ]_vars

\* C38: a get never returns a value whose ttl has elapsed: an entry the
\* memory tier serves was stored without a ttl or its expiry time is still
\* ahead, and the disk and redis tiers serve no key whose expiry has passed.
C38_ExpiredNotReturned ==
    [][ (cm_ops' = cm_ops + 1 /\ cm_last'.op = "get") =>
          /\ cm_last'.tier = "memory" =>
                LET entry == mem_cache[MemIndex(mem_cache, cm_last'.key)]
                IN  entry.ttl = None \/ entry.timestamp > cm_now
          /\ cm_last'.tier = "disk" => ~Expired(disk_expire, cm_last'.key)
          /\ cm_last'.tier = "redis" => ~Expired(redis_expire, cm_last'.key)
      ]_vars

\* C40: the memory tier's recorded size is the sum of the sizes of the
\* entries it holds, after any sequence of set, get, delete and clear.
C40_SizeIsSumOfEntries == mem_bytes = SumOfSizes(mem_cache)

(***************************************************************************)
(* ReasoningDisplay (aurora_pro/reasoning_display.py)                      *)
(***************************************************************************)
ContextIds == 1..MaxContexts

\* ReasoningLevel: the members and their values, which are strings
ReasoningLevels == {"debug", "info", "warning", "error", "critical"}

\* a Python str as the sequence of its code points
LevelValue(level) ==
    CASE level = "debug"    -> <<100, 101, 98, 117, 103>>
      [] level = "info"     -> <<105, 110, 102, 111>>
      [] level = "warning"  -> <<119, 97, 114, 110, 105, 110, 103>>
      [] level = "error"    -> <<101, 114, 114, 111, 114>>
      [] level = "critical" -> <<99, 114, 105, 116, 105, 99, 97, 108>>

\* Python's a < b on two str: at the first position where they differ the
\* smaller code point decides; a proper prefix is smaller
StrLess(a, b) ==
    \/ \E i \in 1..Len(a) :
          /\ i <= Len(b)
          /\ a[i] < b[i]
          /\ \A j \in 1..(i - 1) : a[j] = b[j]
    \/ /\ Len(a) < Len(b)
       /\ \A j \in 1..Len(a) : a[j] = b[j]

\* add_thought's test before _print_to_console:
\* self._console_enabled and level.value >= self._console_min_level.value
RD_console_prints(enabled, min_level, level) ==
    enabled /\ ~StrLess(LevelValue(level), LevelValue(min_level))

NoContext == [status |-> "absent", start_time |-> None, end_time |-> None,
              total_steps |-> 0]

NoThought == [level |-> "None", enabled |-> FALSE, min_level |-> "None",
              printed |-> FALSE]

TerminalStatuses == {"completed", "failed", "cancelled"}

RD_Init ==
    /\ rd_running = FALSE
    /\ rd_contexts = [c \in ContextIds |-> NoContext]
    /\ rd_order = <<>>
    /\ rd_active = None
    /\ rd_stamp = 0
    /\ rd_stop = <<>>
    /\ rd_subscribers = {}
    /\ rd_queues = <<>>
    /\ rd_dead = {}
    /\ rd_sent = 0
    /\ rd_console_enabled = TRUE
    /\ rd_console_min_level = "info"
    /\ rd_last = NoThought

RD_full(q) == Len(rd_queues[q]) >= QueueMaxsize

\* _broadcast, for one queue: a loop that ends at the first full queue
RD_put_nowait_until_full(q, message) ==
    IF q \in rd_subscribers /\ \A p \in rd_subscribers : ~RD_full(p)
    THEN Append(rd_queues[q], message)
    ELSE rd_queues[q]

\* _broadcast, for one queue: put_nowait on every subscribed queue, QueueFull
\* caught per queue
RD_put_nowait(q, message) ==
    IF q \in rd_subscribers /\ ~RD_full(q)
    THEN Append(rd_queues[q], message)
    ELSE rd_queues[q]

\* _broadcast: runs without a suspension point.  The message carries its
\* number in the order of the broadcasts.
RD_broadcast(type) ==
    LET message == [seq |-> rd_sent + 1, type |-> type] IN
    /\ rd_sent' = rd_sent + 1
    /\ rd_queues' = [q \in DOMAIN rd_queues |-> RD_put_nowait(q, message)]
    /\ rd_dead' = {q \in rd_subscribers : RD_full(q)}
    /\ rd_subscribers' = rd_subscribers \ {q \in rd_subscribers : RD_full(q)}

RD_no_broadcast == UNCHANGED <<rd_sent, rd_queues, rd_dead, rd_subscribers>>

RD_start ==
    /\ OnlyRD
    /\ rd_running' = TRUE
    /\ UNCHANGED <<rd_contexts, rd_order, rd_active, rd_stamp, rd_stop,
                   rd_console_enabled, rd_console_min_level, rd_last>>
    /\ RD_no_broadcast

\* subscribe(): a new queue of maxsize entries
RD_subscribe ==
    /\ OnlyRD
    /\ Len(rd_queues) < MaxSubscribers
    /\ rd_queues' = Append(rd_queues, <<>>)
    /\ rd_subscribers' = rd_subscribers \cup {Len(rd_queues) + 1}
    /\ UNCHANGED <<rd_running, rd_contexts, rd_order, rd_active, rd_stamp,
                   rd_stop, rd_dead, rd_sent, rd_console_enabled,
                   rd_console_min_level, rd_last>>

RD_unsubscribe ==
    /\ OnlyRD
    /\ \E q \in DOMAIN rd_queues : rd_subscribers' = rd_subscribers \ {q}
    /\ UNCHANGED <<rd_running, rd_contexts, rd_order, rd_active, rd_stamp,
                   rd_stop, rd_queues, rd_dead, rd_sent, rd_console_enabled,
                   rd_console_min_level, rd_last>>

\* the holder of a queue takes its oldest message
RD_queue_get ==
    /\ OnlyRD
    /\ \E q \in DOMAIN rd_queues :
          /\ rd_queues[q] # <<>>
          /\ rd_queues' = [rd_queues EXCEPT ![q] = Tail(@)]
    /\ UNCHANGED <<rd_running, rd_contexts, rd_order, rd_active, rd_stamp,
                   rd_stop, rd_subscribers, rd_dead, rd_sent,
                   rd_console_enabled, rd_console_min_level, rd_last>>

RD_enable_console ==
    /\ OnlyRD
    /\ \E min_level \in ReasoningLevels :
          /\ rd_console_enabled' = TRUE
          /\ rd_console_min_level' = min_level
    /\ UNCHANGED <<rd_running, rd_contexts, rd_order, rd_active, rd_stamp,
                   rd_stop, rd_last>>
    /\ RD_no_broadcast

RD_disable_console ==
    /\ OnlyRD
    /\ rd_console_enabled' = FALSE
    /\ UNCHANGED <<rd_running, rd_contexts, rd_order, rd_active, rd_stamp,
                   rd_stop, rd_console_min_level, rd_last>>
    /\ RD_no_broadcast

\* begin_context: a caller may pass the id of a context that exists, which
\* is then replaced by the new context
RD_begin_context ==
    /\ OnlyRD
    /\ rd_stamp < MaxStamps
    /\ rd_sent < MaxBroadcasts
    /\ \E context_id \in ContextIds :
          /\ rd_contexts' = [rd_contexts EXCEPT ![context_id] =
                                [status |-> "active", start_time |-> rd_stamp,
                                 end_time |-> None, total_steps |-> 0]]
          /\ rd_order' = IF rd_contexts[context_id] = NoContext
                         THEN Append(rd_order, context_id)
                         ELSE rd_order
          /\ rd_active' = context_id
    /\ rd_stamp' = rd_stamp + 1
    /\ RD_broadcast("context_begin")
    /\ UNCHANGED <<rd_running, rd_stop, rd_console_enabled,
                   rd_console_min_level, rd_last>>

\* the body of end_context; it returns at once for an id it does not know
RD_end(context_id, status) ==
    IF rd_contexts[context_id] = NoContext
    THEN /\ UNCHANGED <<rd_contexts, rd_active, rd_stamp>>
         /\ RD_no_broadcast
    ELSE /\ rd_contexts' = [rd_contexts EXCEPT ![context_id].end_time = rd_stamp,
                                               ![context_id].status = status]
         /\ rd_active' = IF rd_active = context_id THEN None ELSE rd_active
         /\ rd_stamp' = rd_stamp + 1
         /\ RD_broadcast("context_end")

RD_end_context ==
    /\ OnlyRD
    /\ rd_stamp < MaxStamps
    /\ rd_sent < MaxBroadcasts
    /\ \E context_id \in ContextIds, status \in TerminalStatuses :
          RD_end(context_id, status)
    /\ UNCHANGED <<rd_running, rd_order, rd_stop, rd_console_enabled,
                   rd_console_min_level, rd_last>>

\* stop(): clears the flag and takes the list of all context ids
RD_stop ==
    /\ OnlyRD
    /\ rd_stop = <<>>
    /\ rd_running' = FALSE
    /\ rd_stop' = rd_order
    /\ UNCHANGED <<rd_contexts, rd_order, rd_active, rd_stamp,
                   rd_console_enabled, rd_console_min_level, rd_last>>
    /\ RD_no_broadcast

\* stop(), one turn of its loop: await self.end_context(context_id)
RD_stop_end_context ==
    /\ OnlyRD
    /\ rd_stop # <<>>
    /\ rd_stamp < MaxStamps
    /\ rd_sent < MaxBroadcasts
    /\ RD_end(Head(rd_stop), "completed")
    /\ rd_stop' = Tail(rd_stop)
    /\ UNCHANGED <<rd_running, rd_order, rd_console_enabled,
                   rd_console_min_level, rd_last>>

\* add_thought: the step is counted in its context, printed if the console
\* test passes, and broadcast
RD_add_thought ==
    /\ OnlyRD
    /\ rd_sent < MaxBroadcasts
    /\ \E level \in ReasoningLevels, context_id \in ContextIds \cup {None} :
          LET cid == IF context_id = None THEN rd_active ELSE context_id IN
          /\ rd_contexts' =
                IF cid # None /\ rd_contexts[cid] # NoContext
                THEN [rd_contexts EXCEPT ![cid].total_steps = @ + 1]
                ELSE rd_contexts
          /\ rd_last' = [level |-> level,
                         enabled |-> rd_console_enabled,
                         min_level |-> rd_console_min_level,
                         printed |-> RD_console_prints(rd_console_enabled,
                                                       rd_console_min_level,
                                                       level)]
    /\ RD_broadcast("reasoning_step")
    /\ UNCHANGED <<rd_running, rd_order, rd_active, rd_stamp, rd_stop,
                   rd_console_enabled, rd_console_min_level>>

\* the subscribers and the steps they are sent
NextBroadcast ==
    \/ RD_subscribe
    \/ RD_unsubscribe
    \/ RD_queue_get
    \/ RD_add_thought

\* the console settings and the steps printed
NextConsole ==
    \/ RD_enable_console
    \/ RD_disable_console
    \/ RD_add_thought

\* the contexts from begin to end, and stop()
NextReasoning ==
    \/ RD_start
    \/ RD_stop
    \/ RD_stop_end_context
    \/ RD_begin_context
    \/ RD_end_context
    \/ RD_add_thought

(***************************************************************************)
(* Claims about the reasoning display                                      *)
(***************************************************************************)
\* a queue's messages are in the order of the broadcasts
InBroadcastOrder(queue) ==
    \A i, j \in DOMAIN queue : i < j => queue[i].seq < queue[j].seq

\* C32: at a broadcast, a subscriber whose queue is full is dropped and its
\* queue gets no message, then or later; every other subscriber gets the
\* message of this broadcast appended to its queue, so that each queue holds
\* its messages in broadcast order.
C32_FullSubscriberDropped ==
    [][ \A q \in DOMAIN rd_queues :
          /\ (rd_sent' = rd_sent + 1 /\ q \in rd_subscribers /\ RD_full(q)) =>
                /\ q \notin rd_subscribers'
                /\ rd_queues'[q] = rd_queues[q]
          /\ (rd_sent' = rd_sent + 1 /\ q \in rd_subscribers /\ ~RD_full(q)) =>
                /\ q \in rd_subscribers'
                /\ Len(rd_queues'[q]) = Len(rd_queues[q]) + 1
                /\ SubSeq(rd_queues'[q], 1, Len(rd_queues[q])) = rd_queues[q]
                /\ rd_queues'[q][Len(rd_queues'[q])].seq = rd_sent'
          /\ q \notin rd_subscribers =>
                /\ q \notin rd_subscribers'
                /\ \/ rd_queues'[q] = rd_queues[q]
                   \/ /\ rd_queues[q] # <<>>
                      /\ rd_queues'[q] = Tail(rd_queues[q])
          /\ InBroadcastOrder(rd_queues'[q])
      ]_vars

\* C32 witness: the latest broadcast dropped a subscriber whose queue was
\* full and reached another subscriber
C32_Witness ==
    \E q1 \in rd_dead, q2 \in rd_subscribers :
        /\ Len(rd_queues[q1]) = QueueMaxsize
        /\ rd_queues[q1][QueueMaxsize].seq < rd_sent
        /\ rd_queues[q2] # <<>>
        /\ rd_queues[q2][Len(rd_queues[q2])].seq = rd_sent

\* the order of the levels: debug < info < warning < error < critical
LevelRank(level) ==
    CASE level = "debug"    -> 0
      [] level = "info"     -> 1
      [] level = "warning"  -> 2
      [] level = "error"    -> 3
      [] level = "critical" -> 4

\* C33: a thought is printed to the console if and only if the console is
\* enabled and the thought's level is at or above the minimum level in the
\* order debug < info < warning < error < critical.
C33_ConsoleFilter ==
    rd_last # NoThought =>
        (rd_last.printed <=>
            /\ rd_last.enabled
            /\ LevelRank(rd_last.level) >= LevelRank(rd_last.min_level))

\* C39: a context that has ended with a terminal status keeps its status and
\* its end time in every later step (a step that replaces the context by a
\* new one of the same id aside).
C39_TerminalContextFrozen ==
    [][ \A c \in ContextIds :
          (/\ rd_contexts[c].status \in TerminalStatuses
           /\ rd_contexts'[c].start_time = rd_contexts[c].start_time) =>
              /\ rd_contexts'[c].status = rd_contexts[c].status
              /\ rd_contexts'[c].end_time = rd_contexts[c].end_time
      ]_vars

(***************************************************************************)
(* PluginManager (aurora_pro/plugin_manager.py): load_plugin and           *)
(* unload_plugin under self._lock, an asyncio.Lock, which is not           *)
(* reentrant.  The policy file permits plugin_system.                      *)
(***************************************************************************)
PluginNames == {"p1", "p2"}
PluginCalls == 1..MaxPluginCalls

NoPluginCall == [op |-> "none", plugin |-> "none", pc |-> "idle",
                 nested |-> FALSE]

PM_Init ==
    /\ pm_plugins = {}
    /\ pm_lock = None
    /\ pm_calls = [c \in PluginCalls |-> NoPluginCall]
    /\ pm_teardowns = [p \in PluginNames |-> 0]

\* load_plugin is called: authorized, the caller reaches "async with
\* self._lock"
PM_load_plugin(c) ==
    /\ OnlyPM
    /\ pm_calls[c].pc = "idle"
    /\ \E plugin_name \in PluginNames :
          pm_calls' = [pm_calls EXCEPT ![c] =
                          [op |-> "load", plugin |-> plugin_name,
                           pc |-> "load_wait", nested |-> FALSE]]
    /\ UNCHANGED <<pm_plugins, pm_lock, pm_teardowns>>

\* load_plugin gets the lock; without the plugin directory or its manifest
\* it raises ValueError and the lock is released, else it reads the manifest
PM_load_acquire(c) ==
    /\ OnlyPM
    /\ pm_calls[c].pc = "load_wait"
    /\ pm_lock = None
    /\ \E found \in BOOLEAN :
          IF found
          THEN /\ pm_lock' = c
               /\ pm_calls' = [pm_calls EXCEPT ![c].pc = "manifest"]
          ELSE /\ pm_lock' = None
               /\ pm_calls' = [pm_calls EXCEPT ![c].pc = "raised"]
    /\ UNCHANGED <<pm_plugins, pm_teardowns>>

\* load_plugin after the manifest, still holding the lock: "if plugin_name
\* in self._plugins: await self.unload_plugin(...)", which reaches
\* unload_plugin's "async with self._lock"; else on to the module
PM_load_manifest(c) ==
    /\ OnlyPM
    /\ pm_calls[c].pc = "manifest"
    /\ pm_calls' = IF pm_calls[c].plugin \in pm_plugins
                   THEN [pm_calls EXCEPT ![c].pc = "unload_wait",
                                         ![c].nested = TRUE]
                   ELSE [pm_calls EXCEPT ![c].pc = "exec"]
    /\ UNCHANGED <<pm_plugins, pm_lock, pm_teardowns>>

\* unload_plugin is called: authorized, the caller reaches "async with
\* self._lock"
PM_unload_plugin(c) ==
    /\ OnlyPM
    /\ pm_calls[c].pc = "idle"
    /\ \E plugin_name \in PluginNames :
          pm_calls' = [pm_calls EXCEPT ![c] =
                          [op |-> "unload", plugin |-> plugin_name,
                           pc |-> "unload_wait", nested |-> FALSE]]
    /\ UNCHANGED <<pm_plugins, pm_lock, pm_teardowns>>

\* Lock.acquire returns when the lock is free; the call that holds the lock
\* waits like any other
PM_lock_free(c) == pm_lock = None

\* unload_plugin gets the lock: an unknown plugin raises ValueError, else the
\* teardown is awaited
PM_unload_acquire(c) ==
    /\ OnlyPM
    /\ pm_calls[c].pc = "unload_wait"
    /\ PM_lock_free(c)
    /\ IF pm_calls[c].plugin \in pm_plugins
       THEN /\ pm_lock' = c
            /\ pm_calls' = [pm_calls EXCEPT ![c].pc = "teardown"]
       ELSE /\ pm_lock' = None
            /\ pm_calls' = [pm_calls EXCEPT ![c].pc = "raised"]
    /\ UNCHANGED <<pm_plugins, pm_teardowns>>

\* unload_plugin: teardown has run (its exception is only logged), the
\* plugin is dropped from the registry, the audit entry is written and the
\* lock is released; a load_plugin that called it goes on to the module
PM_unload_finish(c) ==
    /\ OnlyPM
    /\ pm_calls[c].pc = "teardown"
    /\ pm_teardowns' = [pm_teardowns EXCEPT ![pm_calls[c].plugin] =
                           IF @ < MaxPluginCalls THEN @ + 1 ELSE @]
    /\ pm_plugins' = pm_plugins \ {pm_calls[c].plugin}
    /\ pm_lock' = None
    /\ pm_calls' = [pm_calls EXCEPT ![c].pc =
                       IF pm_calls[c].nested THEN "exec" ELSE "returned"]

\* load_plugin: the module is executed and set up; on success the instance
\* is registered and returned, on an exception the error is audited and
\* raised again; the lock is released either way
PM_load_finish(c) ==
    /\ OnlyPM
    /\ pm_calls[c].pc = "exec"
    /\ \E ok \in BOOLEAN :
          /\ pm_plugins' = IF ok THEN pm_plugins \cup {pm_calls[c].plugin}
                           ELSE pm_plugins
          /\ pm_calls' = [pm_calls EXCEPT ![c].pc =
                             IF ok THEN "returned" ELSE "raised"]
    /\ pm_lock' = None
    /\ UNCHANGED pm_teardowns

NextPlugins ==
    \/ \E c \in PluginCalls : PM_load_plugin(c)
    \/ \E c \in PluginCalls : PM_load_acquire(c)
    \/ \E c \in PluginCalls : PM_load_manifest(c)
    \/ \E c \in PluginCalls : PM_unload_plugin(c)
    \/ \E c \in PluginCalls : PM_unload_acquire(c)
    \/ \E c \in PluginCalls : PM_unload_finish(c)
    \/ \E c \in PluginCalls : PM_load_finish(c)

\* a coroutine that can run does run: the event loop resumes every waiter
\* of the lock once the lock is free and every coroutine whose await is over
PluginFairness ==
    \A c \in PluginCalls :
        /\ SF_vars(PM_load_acquire(c))
        /\ SF_vars(PM_unload_acquire(c))
        /\ WF_vars(PM_load_manifest(c))
        /\ WF_vars(PM_unload_finish(c))
        /\ WF_vars(PM_load_finish(c))

\* C36: a load_plugin of a plugin that is already loaded terminates: once it
\* has read the manifest and found the plugin in the registry, it comes to
\* return or to raise.
C36_ReloadTerminates ==
    \A c \in PluginCalls :
        (/\ pm_calls[c].op = "load"
         /\ pm_calls[c].pc = "manifest"
         /\ pm_calls[c].plugin \in pm_plugins)
        ~> pm_calls[c].pc \in {"returned", "raised"}

(***************************************************************************)
(* Specifications                                                          *)
(***************************************************************************)
\* the state after construction; the policy file grants input control and
\* pyautogui is importable
Init ==
    /\ policy = PolicyAllow
    /\ mk_available = TRUE
    /\ MK_Init
    /\ CLI_Init
    /\ CC_Init
    /\ AE_Init
    /\ LLM_Init
    /\ Gate_Init
    /\ CM_Init
    /\ SEL_Init
    /\ PLAN_Init
    /\ HIST_Init
    /\ HB_Init
    /\ LS_Init
    /\ RD_Init
    /\ PM_Init

\* the input queue, started under any policy file, with or without pyautogui
InitInput ==
    /\ policy \in PolicyFiles
    /\ mk_available \in BOOLEAN
    /\ MK_Init
    /\ CLI_Init
    /\ CC_Init
    /\ AE_Init
    /\ LLM_Init
    /\ Gate_Init
    /\ CM_Init
    /\ SEL_Init
    /\ PLAN_Init
    /\ HIST_Init
    /\ HB_Init
    /\ LS_Init
    /\ RD_Init
    /\ PM_Init

SpecInput == InitInput /\ [][NextInput]_vars

SpecRetry == Init /\ [][NextRetry]_vars

SpecBroadcast == Init /\ [][NextBroadcast]_vars

SpecConsole == Init /\ [][NextConsole]_vars

SpecReasoning == Init /\ [][NextReasoning]_vars

SpecExpiry == Init /\ [][NextExpiry]_vars

SpecClear == Init /\ [][NextClear]_vars

SpecPlugins == Init /\ [][NextPlugins]_vars /\ PluginFairness

SpecQueue == Init /\ [][NextRetry]_vars /\ QueueFairness

SpecCLI == Init /\ [][NextCLI]_vars

NextControl ==
    \/ Lifespan_startup
    \/ \E c \in Callers : ES_emergency_stop(c)
    \/ \E c \in AllCallers : ES_broadcast(c)
    \/ \E c \in AllCallers : ES_fanout(c)
    \/ RS_begin
    \/ RS_check
    \/ RS_stopped
    \/ RS_clear
    \/ RS_start_next
    \/ AE_execute_request

SpecControl == Init /\ [][NextControl]_vars

NextWorkflow ==
    \/ Lifespan_startup
    \/ AE_execute_request
    \/ \E w \in DOMAIN ae_workflows : AE_plan(w)
    \/ \E w \in DOMAIN ae_workflows : AE_execute_action(w)
    \/ \E w \in DOMAIN ae_workflows : AE_attempt_recovery(w)
    \/ \E w \in DOMAIN ae_workflows : AE_finish(w)
    \/ \E w \in DOMAIN ae_workflows : AE_exception(w)

SpecWorkflow == Init /\ [][NextWorkflow]_vars

NextLLM ==
    \/ \E k \in LlmCalls : LLM_generate(k)
    \/ \E k \in LlmCalls : LLM_primary_success(k)
    \/ \E k \in LlmCalls : LLM_primary_failure(k)
    \/ \E k \in LlmCalls : LLM_try_fallback(k)
    \/ \E k \in LlmCalls : LLM_all_failed(k)

SpecLLM == Init /\ [][NextLLM]_vars

SpecGate == Init /\ [][NextGate]_vars

SpecCache == Init /\ [][NextCache]_vars

SpecSelect == Init /\ [][NextSelect]_vars

\* the router with statistics that hold averages
InitCeiling ==
    /\ policy = PolicyAllow
    /\ mk_available = TRUE
    /\ MK_Init
    /\ CLI_Init
    /\ CC_Init
    /\ AE_Init
    /\ llm_stats \in [LLMProvider -> CeilingSamples]
    /\ llm_calls = [k \in LlmCalls |-> NoLlmCall]
    /\ Gate_Init
    /\ CM_Init
    /\ llm_loaded = TRUE
    /\ llm_selection = NoSelection
    /\ PLAN_Init
    /\ HIST_Init
    /\ HB_Init
    /\ LS_Init
    /\ RD_Init
    /\ PM_Init

SpecCeiling == InitCeiling /\ [][NextCeiling]_vars

SpecPlan == Init /\ [][NextPlan]_vars

SpecHistory == Init /\ [][NextHistory]_vars

SpecLifespan == Init /\ [][NextLifespan]_vars

SpecHeartbeat == Init /\ [][NextHeartbeat]_vars /\ HeartbeatFairness

====
